---- MODULE Spec2Model ----
(***************************************************************************)
(* AI content-generation orchestration of E.Vol (src/src/lib/music.js,     *)
(* lines 138-471): the question cache, the local health probe, the local   *)
(* and the remote (DeepSeek) adapters, the static fallbacks and            *)
(* generateQuestion, which ties them together.                             *)
(*                                                                         *)
(* JavaScript values are modelled as tagged records, so that a field of an *)
(* object may hold a string, a number, undefined, ... as in the source.    *)
(* Texts produced by a language model are sequences of tokens; the regular *)
(* expression match and JSON.parse of the source act on those tokens.      *)
(***************************************************************************)
EXTENDS Integers, Sequences, FiniteSets, Bags, TLC

(***************************************************************************)
(* Bounds of the model.                                                    *)
(***************************************************************************)
\* number of generateQuestion calls that can be in flight together
MaxInFlight == 2
\* Date.now() advances no further than this (milliseconds since Init)
MaxNow == 300000
\* number of tokens of a text that the remote model returns
MaxTextLen == 4

(***************************************************************************)
(* JavaScript values.                                                      *)
(***************************************************************************)
Str(s) == [ty |-> "str", s |-> s]
Text(toks) == [ty |-> "text", toks |-> toks]
Num(n) == [ty |-> "num", n |-> n]
Bool(b) == [ty |-> "bool", b |-> b]
Undef == [ty |-> "undef"]
Null == [ty |-> "null"]
Arr(a) == [ty |-> "arr", a |-> a]
Obj(o) == [ty |-> "obj", o |-> o]
Fn(name) == [ty |-> "function", name |-> name]

\* typeof v === 'string'
IsString(v) == v.ty \in {"str", "text"}

\* ToBoolean(v), as used by !v, v || w and if (v)
Truthy(v) ==
  CASE v.ty = "str" -> v.s # ""
    [] v.ty = "text" -> v.toks # <<>>
    [] v.ty = "num" -> v.n # 0
    [] v.ty = "bool" -> v.b
    [] v.ty \in {"undef", "null"} -> FALSE
    [] OTHER -> TRUE

\* v.f throws a TypeError exactly when v is null or undefined
CanGet(v) == v.ty \notin {"undef", "null"}

\* v.f for a v that is neither null nor undefined
Get(v, f) ==
  IF v.ty = "obj" /\ f \in DOMAIN v.o THEN v.o[f] ELSE Undef

\* a[0]
First(v) ==
  IF v.ty = "arr" /\ Len(v.a) > 0 THEN v.a[1] ELSE Undef

\* the own enumerable properties that {...v} copies
Fields(v) == IF v.ty = "obj" THEN v.o ELSE <<>>

\* {...a, ...b}: the properties of b override those of a
Spread(a, b) == b @@ a

\* `${v}` for the values a caller passes as type, difficulty and topic
ToStr(v) ==
  CASE v.ty = "str" -> v.s
    [] v.ty = "undef" -> "undefined"
    [] v.ty = "null" -> "null"
    [] OTHER -> "[object Object]"

\* a function parameter with a default value: p = d
Default(v, d) == IF v = Undef THEN d ELSE v

(***************************************************************************)
(* Texts: content.match(/\{[\s\S]*\}/) and JSON.parse.                     *)
(* Tokens: lb is "{", rb is "}", w is any text without braces, and m is a  *)
(* complete member "k": v of a JSON object (separating commas implied).    *)
(***************************************************************************)
LB == [t |-> "lb"]
RB == [t |-> "rb"]
W == [t |-> "w"]
M(k, v) == [t |-> "m", k |-> k, v |-> v]

\* the regular expression is greedy: from the first "{" to the last "}"
Match(toks) ==
  LET lbs == {i \in 1 .. Len(toks) : toks[i] = LB}
      rbs == {i \in 1 .. Len(toks) : toks[i] = RB}
  IN IF lbs = {} \/ rbs = {} THEN [found |-> FALSE]
     ELSE LET i == CHOOSE i \in lbs : \A j \in lbs : i <= j
              k == CHOOSE k \in rbs : \A j \in rbs : j <= k
          IN IF i < k THEN [found |-> TRUE, toks |-> SubSeq(toks, i, k)]
             ELSE [found |-> FALSE]

\* JSON.parse of a matched text (it starts with "{" and ends with "}"):
\* it succeeds when only members stand between the braces
JSONParses(toks) ==
  /\ Len(toks) >= 2
  /\ toks[1] = LB
  /\ toks[Len(toks)] = RB
  /\ \A i \in 2 .. Len(toks) - 1 : toks[i].t = "m"

\* the parsed object; of a repeated key the last member wins
JSONParse(toks) ==
  LET ks == {toks[i].k : i \in 2 .. Len(toks) - 1}
      last(k) == CHOOSE i \in 2 .. Len(toks) - 1 :
                   /\ toks[i].k = k
                   /\ \A j \in 2 .. Len(toks) - 1 : toks[j].k = k => j <= i
  IN [k \in ks |-> toks[last(k)].v]

\* try { const jsonMatch = v.match(...); if (jsonMatch) JSON.parse(jsonMatch[0]) }
\* the fields of the parsed object, when all of it succeeds
Extract(v) ==
  IF v.ty # "text" THEN [ok |-> FALSE]
  ELSE LET mt == Match(v.toks)
       IN IF mt.found /\ JSONParses(mt.toks)
          THEN [ok |-> TRUE, o |-> JSONParse(mt.toks)]
          ELSE [ok |-> FALSE]

(***************************************************************************)
(* HTTP through axios. A reply is what the network delivers for one call:  *)
(* a response with a status and a body, a network error or a timeout.      *)
(***************************************************************************)
Response(status, data) == [kind |-> "response", status |-> status, data |-> data]
NetworkError == [kind |-> "neterr"]
Timeout == [kind |-> "timeout"]
NoReply == [kind |-> "none"]

\* axios.get / axios.post with the default validateStatus: the promise is
\* fulfilled for a 2xx response and rejected for everything else
AxiosFulfils(reply) ==
  /\ reply.kind = "response"
  /\ reply.status >= 200
  /\ reply.status < 300

\* what a throw statement or a rejected promise carries
Err(name, message) == [name |-> name, message |-> message]

\* the error with which axios rejects the promise of a call
AxiosError(reply) ==
  Err("AxiosError",
      CASE reply.kind = "response" ->
             "Request failed with status code " \o ToString(reply.status)
        [] reply.kind = "timeout" -> "timeout exceeded"
        [] OTHER -> "Network Error")

\* reading a property of null or undefined
TypeError == Err("TypeError", "Cannot read properties of null or undefined")

\* the errors that generateWithAPI constructs
NotConfigured == Err("Error", "DeepSeek API key not configured")
PaymentRequired ==
  Err("Error", "DeepSeek API requires payment/credits. Please add credits to your account or use local inference.")
Unauthorized == Err("Error", "DeepSeek API key is invalid. Please check your API key.")
RateLimited ==
  Err("Error", "DeepSeek API rate limit exceeded. Please wait and try again.")

(***************************************************************************)
(* Configuration and constants of the module.                              *)
(***************************************************************************)
CACHE_DURATION == 5 * 60 * 1000

PLACEHOLDER_KEY == Str("YOUR_DEEPSEEK_API_KEY")

\* the values import.meta.env.VITE_DEEPSEEK_API_KEY can have in a build
ApiKeys == {Undef, PLACEHOLDER_KEY, Str("sk-key")}

(***************************************************************************)
(* checkLocalAI, given the reply to GET /health.                           *)
(***************************************************************************)
\* the try block with the status tested for truthiness instead of compared
\* with 'healthy'
checkLocalAI_try_truthy(reply) ==
  IF ~AxiosFulfils(reply) THEN [ok |-> FALSE, err |-> AxiosError(reply)]
  ELSE IF ~CanGet(reply.data) THEN [ok |-> FALSE, err |-> TypeError]
  ELSE [ok |-> TRUE, val |-> Bool(Truthy(Get(reply.data, "status")))]

\* the try block: await axios.get(...); return response.data.status === 'healthy'
checkLocalAI_try(reply) ==
  IF ~AxiosFulfils(reply) THEN [ok |-> FALSE, err |-> AxiosError(reply)]
  ELSE IF ~CanGet(reply.data) THEN [ok |-> FALSE, err |-> TypeError]
  ELSE [ok |-> TRUE, val |-> Bool(Get(reply.data, "status") = Str("healthy"))]

\* how the promise of checkLocalAI settles: catch (error) { return false }
checkLocalAI_outcome(reply) ==
  LET r == checkLocalAI_try(reply)
  IN [kind |-> "resolved", value |-> IF r.ok THEN r.val ELSE Bool(FALSE)]

\* localAvailable = await checkLocalAI()
checkLocalAI(reply) ==
  checkLocalAI_outcome(reply) = [kind |-> "resolved", value |-> Bool(TRUE)]

(***************************************************************************)
(* generateWithLocalAI, given the reply to POST /generate. The result is   *)
(* [ok |-> TRUE, val |-> object] for a return and [ok |-> FALSE, err |-> e]*)
(* for a throw.                                                            *)
(***************************************************************************)
\* generateWithLocalAI with source: 'local' written before ...response.data
generateWithLocalAI_sourceFirst(reply) ==
  IF ~AxiosFulfils(reply) THEN [ok |-> FALSE, err |-> AxiosError(reply)]
  ELSE IF ~CanGet(reply.data) THEN [ok |-> FALSE, err |-> TypeError]
  ELSE [ok |-> TRUE,
        val |-> Obj(Spread([source |-> Str("local")],
                  Spread(Fields(reply.data),
                    [model_used |-> Get(reply.data, "model_used"),
                     performance |-> Obj(
                       [inference_time_ms |-> Get(reply.data, "inference_time_ms"),
                        tokens_per_second |-> Get(reply.data, "tokens_per_second")])])))]

generateWithLocalAI(reply) ==
  IF ~AxiosFulfils(reply) THEN [ok |-> FALSE, err |-> AxiosError(reply)]
  ELSE IF ~CanGet(reply.data) THEN [ok |-> FALSE, err |-> TypeError]
  ELSE [ok |-> TRUE,
        val |-> Obj(Spread(Fields(reply.data),
                  [source |-> Str("local"),
                   model_used |-> Get(reply.data, "model_used"),
                   performance |-> Obj(
                     [inference_time_ms |-> Get(reply.data, "inference_time_ms"),
                      tokens_per_second |-> Get(reply.data, "tokens_per_second")])]))]

(***************************************************************************)
(* generateWithAPI.                                                        *)
(***************************************************************************)
\* ApiKeyConfigured without the test for the placeholder
ApiKeyConfigured_anyText(key) == Truthy(key)

\* if (!API_KEY || API_KEY === 'YOUR_DEEPSEEK_API_KEY') throw ...
ApiKeyConfigured(key) == ~(~Truthy(key) \/ key = PLACEHOLDER_KEY)

\* response.data.choices[0].message.content can be evaluated
HasMessage(data) ==
  /\ CanGet(data)
  /\ CanGet(Get(data, "choices"))
  /\ CanGet(First(Get(data, "choices")))
  /\ CanGet(Get(First(Get(data, "choices")), "message"))

MessageContent(data) ==
  Get(Get(First(Get(data, "choices")), "message"), "content")

\* generateWithAPI_response without the best-effort return: a content from
\* which no object can be parsed makes the adapter throw
generateWithAPI_response_strict(reply, gameType, difficulty) ==
  IF ~AxiosFulfils(reply) THEN [ok |-> FALSE, err |-> AxiosError(reply)]
  ELSE IF ~HasMessage(reply.data) THEN [ok |-> FALSE, err |-> TypeError]
  ELSE LET ex == Extract(MessageContent(reply.data))
       IN IF ex.ok
          THEN [ok |-> TRUE,
                val |-> Obj(Spread(ex.o, [source |-> Str("api"),
                                          model_used |-> Str("deepseek-chat")]))]
          ELSE [ok |-> FALSE, err |-> Err("SyntaxError", "Unexpected token")]

\* the part of generateWithAPI after the axios.post, given its reply
generateWithAPI_response(reply, gameType, difficulty) ==
  IF ~AxiosFulfils(reply) THEN [ok |-> FALSE, err |-> AxiosError(reply)]
  ELSE IF reply.status = 402 THEN [ok |-> FALSE, err |-> PaymentRequired]
  ELSE IF reply.status = 401 THEN [ok |-> FALSE, err |-> Unauthorized]
  ELSE IF reply.status = 429 THEN [ok |-> FALSE, err |-> RateLimited]
  ELSE IF ~HasMessage(reply.data) THEN [ok |-> FALSE, err |-> TypeError]
  ELSE LET content == MessageContent(reply.data)
           ex == Extract(content)
       IN IF ex.ok
          THEN [ok |-> TRUE,
                val |-> Obj(Spread(ex.o, [source |-> Str("api"),
                                          model_used |-> Str("deepseek-chat")]))]
          ELSE [ok |-> TRUE,
                val |-> Obj([question |-> content,
                             answer |-> Str("Generated content"),
                             hint |-> Str("AI-generated content"),
                             difficulty |-> difficulty,
                             category |-> gameType,
                             source |-> Str("api"),
                             model_used |-> Str("deepseek-chat")])]

(***************************************************************************)
(* The static fallbacks of generateQuestion's catch block.                 *)
(***************************************************************************)
fallbacks(difficulty) ==
  [riddle |-> Obj([q |-> Str("I speak without a mouth and hear without ears. I have no body, but come alive with wind. What am I?"),
                   a |-> Str("An echo"),
                   hint |-> Str("Think about sound"),
                   difficulty |-> difficulty,
                   category |-> Str("logic"),
                   source |-> Str("fallback")]),
   trivia |-> Obj([grade |-> Num(5),
                   question |-> Str("What is the capital of France?"),
                   choices |-> Arr(<<Str("London"), Str("Berlin"), Str("Paris"), Str("Madrid")>>),
                   answerIdx |-> Num(2),
                   category |-> Str("geography"),
                   source |-> Str("fallback")]),
   emoji |-> Obj([emojis |-> Str("<apple><phone>"),
                  answer |-> Str("APPLE"),
                  hint |-> Str("Technology company"),
                  difficulty |-> difficulty,
                  category |-> Str("brand"),
                  source |-> Str("fallback")]),
   word |-> Obj([word |-> Str("PUZZLE"),
                 category |-> Str("Games"),
                 difficulty |-> difficulty,
                 hint |-> Str("What you're solving right now"),
                 source |-> Str("fallback")])]

\* the properties every object literal inherits from Object.prototype
ObjectPrototypeFns ==
  {"constructor", "toString", "toLocaleString", "valueOf", "hasOwnProperty",
   "isPrototypeOf", "propertyIsEnumerable"}

\* Fallback that ignores the type: always fallbacks.riddle
Fallback_riddleOnly(type, difficulty) == fallbacks(difficulty).riddle

\* return fallbacks[type] || fallbacks.riddle
Fallback(type, difficulty) ==
  LET name == ToStr(type)
      tbl == fallbacks(difficulty)
  IN IF name \in DOMAIN tbl THEN tbl[name]
     ELSE IF name \in ObjectPrototypeFns THEN Fn(name)
     ELSE IF name = "__proto__" THEN Obj(<<>>)
     ELSE tbl.riddle

(***************************************************************************)
(* generateQuestion: the cache key, the cache check and the tail of the    *)
(* try block.                                                              *)
(***************************************************************************)
\* CacheKey without the difficulty
CacheKey_noDifficulty(type, difficulty, topic) ==
  ToStr(type) \o "-" \o
    (IF Truthy(topic) THEN ToStr(topic) ELSE "default")

\* CacheKey with the topic interpolated as it is, without || 'default'
CacheKey_rawTopic(type, difficulty, topic) ==
  ToStr(type) \o "-" \o ToStr(difficulty) \o "-" \o ToStr(topic)

\* CacheKey without the type
CacheKey_noType(type, difficulty, topic) ==
  ToStr(difficulty) \o "-" \o
    (IF Truthy(topic) THEN ToStr(topic) ELSE "default")

\* const cacheKey = `${type}-${difficulty}-${topic || 'default'}`
CacheKey(type, difficulty, topic) ==
  ToStr(type) \o "-" \o ToStr(difficulty) \o "-" \o
    (IF Truthy(topic) THEN ToStr(topic) ELSE "default")

\* CacheHit with <= in place of <
CacheHit_inclusive(cache, key, t) ==
  /\ key \in DOMAIN cache
  /\ t - cache[key].timestamp <= CACHE_DURATION

\* cached && Date.now() - cached.timestamp < CACHE_DURATION
CacheHit(cache, key, t) ==
  /\ key \in DOMAIN cache
  /\ t - cache[key].timestamp < CACHE_DURATION

\* Date.now() - cached.timestamp as the cache check computes it; -1 stands
\* for "no entry", where the check computes nothing
Age(cache, key, t) == IF key \in DOMAIN cache THEN t - cache[key].timestamp ELSE -1

\* HitResult that also tags the copy source: 'cache'
HitResult_tagCache(entry) ==
  Obj(Spread(Fields(entry.data), [cached |-> Bool(TRUE), source |-> Str("cache")]))

\* return { ...cached.data, cached: true }
HitResult(entry) == Obj(Spread(Fields(entry.data), [cached |-> Bool(TRUE)]))

\* "Parse the response text if it's a string"
ParseText(result) ==
  IF IsString(Get(result, "text"))
  THEN LET ex == Extract(Get(result, "text"))
       IN IF ex.ok THEN Obj(Spread(Fields(result), ex.o)) ELSE result
  ELSE result

\* TryEnd that does not cache the best-effort artifact
TryEnd_skipPlaceholder(cache, key, result, t) ==
  LET final == ParseText(result)
  IN [cache |-> IF Get(final, "answer") = Str("Generated content")
                THEN cache
                ELSE (key :> [data |-> final, timestamp |-> t]) @@ cache,
      outcome |-> [kind |-> "resolved", value |-> final]]

\* TryEnd on a cache that holds one entry: the write evicts the others
TryEnd_singleEntry(cache, key, result, t) ==
  LET final == ParseText(result)
  IN [cache |-> (key :> [data |-> final, timestamp |-> t]),
      outcome |-> [kind |-> "resolved", value |-> final]]

\* the try block ran to its end with this result: parse its text, cache it
\* under the key with the time of the write, return it
TryEnd(cache, key, result, t) ==
  LET final == ParseText(result)
  IN [cache |-> (key :> [data |-> final, timestamp |-> t]) @@ cache,
      outcome |-> [kind |-> "resolved", value |-> final]]

\* OuterCatch with the error thrown again instead of the fallback returned
OuterCatch_rethrow(type, difficulty, err) ==
  [kind |-> "rejected", err |-> err]

\* catch (error) { ... return fallbacks[type] || fallbacks.riddle }
OuterCatch(type, difficulty, err) ==
  [kind |-> "resolved", value |-> Fallback(type, difficulty)]

(***************************************************************************)
(* What callers pass and what the network delivers.                        *)
(***************************************************************************)
\* generateQuestion(type, difficulty, topic); an omitted argument is Undef
Calls ==
  {<<Undef, Undef, Undef>>,
   <<Str("trivia"), Str("easy"), Str("geography")>>}

HealthReplies ==
  {Response(200, Obj([status |-> Str("healthy")])),
   Response(200, Obj([status |-> Str("loading")])),
   Response(200, Obj(<<>>)),
   Response(200, Null),
   Response(503, Obj([status |-> Str("healthy")])),
   NetworkError,
   Timeout}

LocalReplies ==
  {Response(200, Obj([text |-> Text(<<W, LB, M("q", Str("Q1")), M("a", Str("A1")), RB>>),
                      source |-> Str("server"),
                      model_used |-> Str("deepseek-v3"),
                      inference_time_ms |-> Num(120),
                      tokens_per_second |-> Num(50)])),
   Response(200, Obj([text |-> Text(<<LB, M("q", Str("Q2")), M("source", Str("model")), RB>>)])),
   Response(200, Null),
   Response(500, Obj(<<>>)),
   NetworkError}

Chat(content) ==
  Obj([choices |-> Arr(<<Obj([message |-> Obj([content |-> content])])>>)])

RemoteReplies ==
  {Response(200, Chat(Text(<<W, LB, M("q", Str("Q3")), M("a", Str("A3")), RB, W>>))),
   Response(200, Chat(Text(<<W>>))),
   Response(200, Obj([choices |-> Arr(<<Obj([message |-> Obj(<<>>)])>>)])),
   Response(200, Obj([choices |-> Arr(<<>>)])),
   Response(402, Obj(<<>>)),
   Response(401, Obj(<<>>)),
   Response(429, Obj(<<>>)),
   NetworkError}

\* how far Date.now() moves between two steps
TickSteps == {299999, 300000}

(***************************************************************************)
(* State.                                                                  *)
(***************************************************************************)
VARIABLES
  questionCache,  \* the Map: cacheKey -> [data, timestamp]
  now,            \* Date.now()
  API_KEY,        \* the remote credential of this build
  inflight,       \* the generateQuestion calls awaiting a reply, as a bag:
                  \* two calls in the same state are two copies of one record
  observed        \* what the last step showed of the call it acted on: the
                  \* call after its cache check (pc = "probe" on a miss) or
                  \* at its return (pc = "done", with the outcome); Idle when
                  \* the last step was neither

vars == <<questionCache, now, API_KEY, inflight, observed>>

\* the record of a call at its start: no network call made yet, nothing
\* written. probe is the value of localAvailable ("up" for true, "down" for
\* false); local and api tell how far generateWithLocalAI and generateWithAPI
\* got. age is what the cache check computed and reply the reply of the
\* remote endpoint that generateWithAPI received; both are kept in observed
\* only
Idle ==
  [pc |-> "idle", type |-> Undef, difficulty |-> Undef, topic |-> Undef,
   probes |-> 0, localCalls |-> 0, apiCalls |-> 0, apiPosts |-> 0, writes |-> 0,
   probe |-> "none", local |-> "none", api |-> "none", age |-> -1,
   reply |-> NoReply, outcome |-> [kind |-> "pending"]]

KeyOf(q) == CacheKey(q.type, q.difficulty, q.topic)

InFlight == BagToSet(inflight)

Init ==
  /\ questionCache = <<>>
  /\ now = 0
  /\ API_KEY \in ApiKeys
  /\ inflight = EmptyBag
  /\ observed = Idle

(***************************************************************************)
(* generateQuestion, one action per stretch between two awaits.            *)
(***************************************************************************)
\* the promise of call q settles with this outcome
Settle(q, reply, outcome) ==
  observed' = [q EXCEPT !.pc = "done", !.reply = reply, !.outcome = outcome]

\* result = await generateWithAPI(...) in the call that was in flight as old
\* and is now q: generateWithAPI either throws at once for a missing
\* credential, which the outer catch turns into the fallback, or posts to the
\* remote endpoint and awaits the reply
CallAPI(old, q) ==
  IF ApiKeyConfigured(API_KEY)
  THEN /\ inflight' = (inflight (-) SetToBag({old})) (+)
                      SetToBag({[q EXCEPT !.pc = "remote", !.api = "called",
                                          !.apiCalls = @ + 1, !.apiPosts = @ + 1]})
       /\ observed' = Idle
  ELSE /\ inflight' = inflight (-) SetToBag({old})
       /\ Settle([q EXCEPT !.apiCalls = @ + 1, !.api = "threw"], NoReply,
                 OuterCatch(q.type, q.difficulty, NotConfigured))

\* generateQuestion_call with the probe sent before the cache check
generateQuestion_call_probeFirst(args) ==
  /\ BagCardinality(inflight) < MaxInFlight
  /\ LET type == Default(args[1], Str("riddle"))
         difficulty == Default(args[2], Str("medium"))
         topic == Default(args[3], Null)
         key == CacheKey(type, difficulty, topic)
         q == [Idle EXCEPT !.type = type, !.difficulty = difficulty,
                           !.topic = topic, !.probes = 1,
                           !.age = Age(questionCache, key, now)]
     IN IF CacheHit(questionCache, key, now)
        THEN /\ Settle(q, NoReply,
                       [kind |-> "resolved", value |-> HitResult(questionCache[key])])
             /\ UNCHANGED inflight
        ELSE /\ inflight' = inflight (+)
                            SetToBag({[q EXCEPT !.pc = "probe", !.age = -1]})
             /\ observed' = [q EXCEPT !.pc = "probe"]
  /\ UNCHANGED <<questionCache, now, API_KEY>>

\* generateQuestion_call with a hit that restarts the lifetime of the entry
generateQuestion_call_refreshOnHit(args) ==
  /\ BagCardinality(inflight) < MaxInFlight
  /\ LET type == Default(args[1], Str("riddle"))
         difficulty == Default(args[2], Str("medium"))
         topic == Default(args[3], Null)
         key == CacheKey(type, difficulty, topic)
         q == [Idle EXCEPT !.type = type, !.difficulty = difficulty,
                           !.topic = topic,
                           !.age = Age(questionCache, key, now)]
     IN IF CacheHit(questionCache, key, now)
        THEN /\ Settle(q, NoReply,
                       [kind |-> "resolved", value |-> HitResult(questionCache[key])])
             /\ questionCache' = [questionCache EXCEPT ![key].timestamp = now]
             /\ UNCHANGED inflight
        ELSE /\ inflight' = inflight (+)
                            SetToBag({[q EXCEPT !.pc = "probe", !.probes = 1, !.age = -1]})
             /\ observed' = [q EXCEPT !.pc = "probe", !.probes = 1]
             /\ UNCHANGED questionCache
  /\ UNCHANGED <<now, API_KEY>>

\* generateQuestion_call that reuses a probe result: when a call in flight
\* has found the local backend available, a new call skips its own probe and
\* starts the local generation at once
generateQuestion_call_reuseProbe(args) ==
  /\ BagCardinality(inflight) < MaxInFlight
  /\ LET type == Default(args[1], Str("riddle"))
         difficulty == Default(args[2], Str("medium"))
         topic == Default(args[3], Null)
         key == CacheKey(type, difficulty, topic)
         q == [Idle EXCEPT !.type = type, !.difficulty = difficulty,
                           !.topic = topic,
                           !.age = Age(questionCache, key, now)]
     IN IF CacheHit(questionCache, key, now)
        THEN /\ Settle(q, NoReply,
                       [kind |-> "resolved", value |-> HitResult(questionCache[key])])
             /\ UNCHANGED inflight
        ELSE IF \E o \in InFlight : o.probe = "up"
        THEN /\ inflight' = inflight (+)
                            SetToBag({[q EXCEPT !.pc = "local", !.probe = "up",
                                                !.local = "called",
                                                !.localCalls = 1, !.age = -1]})
             /\ observed' = Idle
        ELSE /\ inflight' = inflight (+)
                            SetToBag({[q EXCEPT !.pc = "probe", !.probes = 1, !.age = -1]})
             /\ observed' = [q EXCEPT !.pc = "probe", !.probes = 1]
  /\ UNCHANGED <<questionCache, now, API_KEY>>

\* generateQuestion_call that coalesces: a call that misses while another
\* call for the same key is in flight sends nothing of its own and waits for
\* that call
generateQuestion_call_coalesce(args) ==
  /\ BagCardinality(inflight) < MaxInFlight
  /\ LET type == Default(args[1], Str("riddle"))
         difficulty == Default(args[2], Str("medium"))
         topic == Default(args[3], Null)
         key == CacheKey(type, difficulty, topic)
         q == [Idle EXCEPT !.type = type, !.difficulty = difficulty,
                           !.topic = topic,
                           !.age = Age(questionCache, key, now)]
     IN IF CacheHit(questionCache, key, now)
        THEN /\ Settle(q, NoReply,
                       [kind |-> "resolved", value |-> HitResult(questionCache[key])])
             /\ UNCHANGED inflight
        ELSE IF \E o \in InFlight : KeyOf(o) = key
        THEN /\ observed' = [q EXCEPT !.pc = "probe"]
             /\ UNCHANGED inflight
        ELSE /\ inflight' = inflight (+)
                            SetToBag({[q EXCEPT !.pc = "probe", !.probes = 1, !.age = -1]})
             /\ observed' = [q EXCEPT !.pc = "probe", !.probes = 1]
  /\ UNCHANGED <<questionCache, now, API_KEY>>

\* the call up to its first await: cache check, then the probe is sent
generateQuestion_call(args) ==
  /\ BagCardinality(inflight) < MaxInFlight
  /\ LET type == Default(args[1], Str("riddle"))
         difficulty == Default(args[2], Str("medium"))
         topic == Default(args[3], Null)
         key == CacheKey(type, difficulty, topic)
         q == [Idle EXCEPT !.type = type, !.difficulty = difficulty,
                           !.topic = topic,
                           !.age = Age(questionCache, key, now)]
     IN IF CacheHit(questionCache, key, now)
        THEN /\ Settle(q, NoReply,
                       [kind |-> "resolved", value |-> HitResult(questionCache[key])])
             /\ UNCHANGED inflight
        ELSE /\ inflight' = inflight (+)
                            SetToBag({[q EXCEPT !.pc = "probe", !.probes = 1, !.age = -1]})
             /\ observed' = [q EXCEPT !.pc = "probe", !.probes = 1]
  /\ UNCHANGED <<questionCache, now, API_KEY>>

\* generateQuestion_probed with the test of localAvailable inverted
generateQuestion_probed_inverted(q, reply) ==
  /\ q \in InFlight
  /\ q.pc = "probe"
  /\ IF ~checkLocalAI(reply)
     THEN /\ inflight' = (inflight (-) SetToBag({q})) (+)
                         SetToBag({[q EXCEPT !.pc = "local", !.probe = "down",
                                             !.local = "called",
                                             !.localCalls = @ + 1]})
          /\ observed' = Idle
     ELSE CallAPI(q, [q EXCEPT !.probe = "up"])
  /\ UNCHANGED <<questionCache, now, API_KEY>>

\* generateQuestion_probed that prefers the remote backend: the result of
\* the probe is recorded but the remote attempt starts either way
generateQuestion_probed_remoteFirst(q, reply) ==
  /\ q \in InFlight
  /\ q.pc = "probe"
  /\ CallAPI(q, [q EXCEPT !.probe = IF checkLocalAI(reply) THEN "up" ELSE "down"])
  /\ UNCHANGED <<questionCache, now, API_KEY>>

\* checkLocalAI returns; local generation or the remote attempt starts
generateQuestion_probed(q, reply) ==
  /\ q \in InFlight
  /\ q.pc = "probe"
  /\ IF checkLocalAI(reply)
     THEN /\ inflight' = (inflight (-) SetToBag({q})) (+)
                         SetToBag({[q EXCEPT !.pc = "local", !.probe = "up",
                                             !.local = "called",
                                             !.localCalls = @ + 1]})
          /\ observed' = Idle
     ELSE CallAPI(q, [q EXCEPT !.probe = "down"])
  /\ UNCHANGED <<questionCache, now, API_KEY>>

\* generateQuestion_local without the inner try/catch: a failure of the
\* local generation goes to the outer catch at once
generateQuestion_local_noFailover(q, reply) ==
  /\ q \in InFlight
  /\ q.pc = "local"
  /\ inflight' = inflight (-) SetToBag({q})
  /\ LET res == generateWithLocalAI(reply)
     IN IF res.ok
        THEN LET e == TryEnd(questionCache, KeyOf(q), res.val, now)
             IN /\ questionCache' = e.cache
                /\ Settle([q EXCEPT !.local = "returned", !.writes = @ + 1],
                          NoReply, e.outcome)
        ELSE /\ Settle([q EXCEPT !.local = "threw"], NoReply,
                       OuterCatch(q.type, q.difficulty, res.err))
             /\ UNCHANGED questionCache
  /\ UNCHANGED <<now, API_KEY>>

\* generateQuestion_local that probes again after a failed local generation
\* instead of going on to the remote attempt
generateQuestion_local_reprobe(q, reply) ==
  /\ q \in InFlight
  /\ q.pc = "local"
  /\ LET res == generateWithLocalAI(reply)
     IN IF res.ok
        THEN LET e == TryEnd(questionCache, KeyOf(q), res.val, now)
             IN /\ questionCache' = e.cache
                /\ inflight' = inflight (-) SetToBag({q})
                /\ Settle([q EXCEPT !.local = "returned", !.writes = @ + 1],
                          NoReply, e.outcome)
        ELSE /\ inflight' = (inflight (-) SetToBag({q})) (+)
                            SetToBag({[q EXCEPT !.pc = "probe", !.local = "threw"]})
             /\ observed' = Idle
             /\ UNCHANGED questionCache
  /\ UNCHANGED <<now, API_KEY>>

\* generateWithLocalAI returns or throws
generateQuestion_local(q, reply) ==
  /\ q \in InFlight
  /\ q.pc = "local"
  /\ LET res == generateWithLocalAI(reply)
     IN IF res.ok
        THEN LET e == TryEnd(questionCache, KeyOf(q), res.val, now)
             IN /\ questionCache' = e.cache
                /\ inflight' = inflight (-) SetToBag({q})
                /\ Settle([q EXCEPT !.local = "returned", !.writes = @ + 1],
                          NoReply, e.outcome)
        ELSE /\ CallAPI(q, [q EXCEPT !.local = "threw"])
             /\ UNCHANGED questionCache
  /\ UNCHANGED <<now, API_KEY>>

\* generateQuestion_remote with the fallback written to the cache
generateQuestion_remote_cacheFallback(q, reply) ==
  /\ q \in InFlight
  /\ q.pc = "remote"
  /\ inflight' = inflight (-) SetToBag({q})
  /\ LET res == generateWithAPI_response(reply, q.type, q.difficulty)
     IN IF res.ok
        THEN LET e == TryEnd(questionCache, KeyOf(q), res.val, now)
             IN /\ questionCache' = e.cache
                /\ Settle([q EXCEPT !.api = "returned", !.writes = @ + 1],
                          reply, e.outcome)
        ELSE LET e == TryEnd(questionCache, KeyOf(q), Fallback(q.type, q.difficulty), now)
             IN /\ questionCache' = e.cache
                /\ Settle([q EXCEPT !.api = "threw"], reply, e.outcome)
  /\ UNCHANGED <<now, API_KEY>>

\* generateQuestion_remote that posts once more after a failed remote reply
generateQuestion_remote_retry(q, reply) ==
  /\ q \in InFlight
  /\ q.pc = "remote"
  /\ LET res == generateWithAPI_response(reply, q.type, q.difficulty)
     IN IF res.ok
        THEN LET e == TryEnd(questionCache, KeyOf(q), res.val, now)
             IN /\ questionCache' = e.cache
                /\ inflight' = inflight (-) SetToBag({q})
                /\ Settle([q EXCEPT !.api = "returned", !.writes = @ + 1],
                          reply, e.outcome)
        ELSE IF q.apiPosts < 2
        THEN /\ inflight' = (inflight (-) SetToBag({q})) (+)
                            SetToBag({[q EXCEPT !.apiPosts = @ + 1]})
             /\ observed' = Idle
             /\ UNCHANGED questionCache
        ELSE /\ inflight' = inflight (-) SetToBag({q})
             /\ Settle([q EXCEPT !.api = "threw"], reply,
                       OuterCatch(q.type, q.difficulty, res.err))
             /\ UNCHANGED questionCache
  /\ UNCHANGED <<now, API_KEY>>

\* generateWithAPI returns or throws after its post
generateQuestion_remote(q, reply) ==
  /\ q \in InFlight
  /\ q.pc = "remote"
  /\ inflight' = inflight (-) SetToBag({q})
  /\ LET res == generateWithAPI_response(reply, q.type, q.difficulty)
     IN IF res.ok
        THEN LET e == TryEnd(questionCache, KeyOf(q), res.val, now)
             IN /\ questionCache' = e.cache
                /\ Settle([q EXCEPT !.api = "returned", !.writes = @ + 1],
                          reply, e.outcome)
        ELSE /\ Settle([q EXCEPT !.api = "threw"], reply,
                       OuterCatch(q.type, q.difficulty, res.err))
             /\ UNCHANGED questionCache
  /\ UNCHANGED <<now, API_KEY>>

\* Tick with a sweep: entries that have expired by the new time are removed
Tick_purgeExpired(d) ==
  /\ now + d <= MaxNow
  /\ now' = now + d
  /\ questionCache' =
       [k \in {k \in DOMAIN questionCache :
                 now + d - questionCache[k].timestamp < CACHE_DURATION} |->
          questionCache[k]]
  /\ observed' = Idle
  /\ UNCHANGED <<API_KEY, inflight>>

\* time passes
Tick(d) ==
  /\ now + d <= MaxNow
  /\ now' = now + d
  /\ observed' = Idle
  /\ UNCHANGED <<questionCache, API_KEY, inflight>>

Next ==
  \/ \E args \in Calls : generateQuestion_call(args)
  \/ \E q \in InFlight, reply \in HealthReplies : generateQuestion_probed(q, reply)
  \/ \E q \in InFlight, reply \in LocalReplies : generateQuestion_local(q, reply)
  \/ \E q \in InFlight, reply \in RemoteReplies : generateQuestion_remote(q, reply)
  \/ \E d \in TickSteps : Tick(d)

Spec == Init /\ [][Next]_vars

(***************************************************************************)
(* Properties.                                                             *)
(***************************************************************************)
\* every call the state shows: those in flight and the one just observed
AllCalls == InFlight \cup {observed}

ContentTypes == {"riddle", "trivia", "emoji", "word"}

Returned == observed.pc = "done"

\* the call observed returned from the catch block
ReturnedFallback == Returned /\ observed.api = "threw"

\* the call observed returned what the try block generated
ReturnedGenerated ==
  Returned /\ (observed.local = "returned" \/ observed.api = "returned")

\* C1: generateQuestion never throws or rejects; whatever the probe, the
\* local call and the remote call do, the call resolves to an artifact.
C1_NeverThrows ==
  Returned =>
    /\ observed.outcome.kind = "resolved"
    /\ ToStr(observed.type) \in ContentTypes => observed.outcome.value.ty = "obj"

\* a call returned although both the local and the remote generation threw
C1_Witness ==
  /\ Returned
  /\ observed.local = "threw"
  /\ observed.api = "threw"
  /\ observed.apiPosts = 1
  /\ observed.outcome.kind = "resolved"

\* C2: when the probe reports the local backend unavailable, the call never
\* posts to the local generation endpoint and goes straight to the remote
\* attempt.
C2_NoLocalWhenDown ==
  \A q \in AllCalls :
    q.probe = "down" =>
      /\ q.localCalls = 0
      /\ q.local = "none"
      /\ q.apiCalls = 1
      /\ q.pc \in {"remote", "done"}

\* a call awaits the remote reply after a probe that reported unavailable
C2_Witness ==
  \E q \in InFlight :
    /\ q.probe = "down"
    /\ q.pc = "remote"
    /\ q.probes = 1
    /\ q.localCalls = 0

\* C3: when the probe reports available and the local generation fails, the
\* call makes exactly one remote attempt next and the local failure does not
\* reach the caller.
C3_LocalFailureGoesRemote ==
  \A q \in AllCalls :
    q.local = "threw" =>
      /\ q.probe = "up"
      /\ q.localCalls = 1
      /\ q.apiCalls = 1
      /\ q.apiPosts <= 1
      /\ q.pc \in {"remote", "done"}
      /\ q.pc = "done" => q.outcome.kind = "resolved"

\* a call returned the remote artifact after its local generation threw
C3_Witness ==
  /\ Returned
  /\ observed.local = "threw"
  /\ observed.api = "returned"
  /\ observed.apiCalls = 1
  /\ Get(observed.outcome.value, "source") = Str("api")

\* the reasons for which C4 says the remote attempt fails
C4_RemoteFailed(q) ==
  /\ q.apiCalls = 1
  /\ \/ ~ApiKeyConfigured(API_KEY)
     \/ q.reply.kind = "neterr"
     \/ q.reply.kind = "response" /\ q.reply.status \in {402, 401, 429}
     \/ /\ q.reply.kind = "response"
        /\ q.reply.status = 200
        /\ \/ ~HasMessage(q.reply.data)
           \/ MessageContent(q.reply.data) = Undef

\* C4: whenever the remote attempt fails (credential not configured, HTTP
\* 402, 401 or 429, network error, response without
\* choices[0].message.content), the call resolves with the static fallback
\* of the requested content type, tagged source = "fallback".
C4_RemoteFailureGivesFallback ==
  Returned /\ C4_RemoteFailed(observed) =>
    /\ observed.outcome.kind = "resolved"
    /\ observed.outcome.value = Fallback(observed.type, observed.difficulty)
    /\ Get(observed.outcome.value, "source") = Str("fallback")

\* C5: a call that resolves with the static fallback leaves the cache
\* unchanged: it has written nothing, and the step that returns the fallback
\* changes no entry, so a lookup of its fingerprint right after it hits
\* exactly if it would have hit right before.
C5_FallbackLeavesCache ==
  /\ [](ReturnedFallback => observed.writes = 0)
  /\ [][ReturnedFallback' =>
          /\ questionCache' = questionCache
          /\ CacheHit(questionCache', KeyOf(observed'), now')
               <=> CacheHit(questionCache, KeyOf(observed'), now)]_vars

\* a call returned the fallback and its fingerprint still misses, while the
\* cache holds another entry
C5_Witness ==
  /\ ReturnedFallback
  /\ observed.outcome.value = Fallback(observed.type, observed.difficulty)
  /\ KeyOf(observed) \notin DOMAIN questionCache
  /\ questionCache # <<>>

\* the call observed returned from its cache check
ReturnedHit == Returned /\ observed.probes = 0 /\ observed.apiCalls = 0

\* C6: an entry written at T is a hit for every lookup at T' with
\* T' - T < 300000 and a miss for every lookup with T' - T >= 300000, and
\* the lookup that finds it expired does not delete it.
C6_TTLBoundary ==
  /\ [](observed.pc = "probe" =>
          /\ observed.age = -1 \/ observed.age >= 300000
          /\ observed.age = Age(questionCache, KeyOf(observed), now))
  /\ [](ReturnedHit =>
          /\ observed.age # -1
          /\ observed.age < 300000
          /\ observed.age = Age(questionCache, KeyOf(observed), now))
  /\ [][observed'.pc = "probe" => questionCache' = questionCache]_vars

\* a lookup exactly 300000 ms after the write missed, and the entry is still
\* in the cache
C6_Witness ==
  /\ observed.pc = "probe"
  /\ observed.age = 300000
  /\ KeyOf(observed) \in DOMAIN questionCache
  /\ now - questionCache[KeyOf(observed)].timestamp = 300000

\* C7: a call that hits a valid cache entry makes no network call (no probe,
\* no local generation, no remote generation) and returns the artifact
\* stored for its fingerprint.
C7_HitMakesNoCalls ==
  Returned /\ observed.age # -1 /\ observed.age < 300000 =>
    /\ observed.probes = 0
    /\ observed.localCalls = 0
    /\ observed.apiCalls = 0
    /\ observed.apiPosts = 0
    /\ KeyOf(observed) \in DOMAIN questionCache
    /\ LET d == questionCache[KeyOf(observed)].data
       IN \A f \in DOMAIN d.o \ {"cached"} : Get(observed.outcome.value, f) = d.o[f]

\* a call was answered from an entry 299999 ms old without any network call
C7_Witness ==
  /\ Returned
  /\ observed.age = 299999
  /\ observed.probes + observed.localCalls + observed.apiCalls = 0
  /\ observed.outcome.kind = "resolved"

\* a step of some generateQuestion call
GenerateQuestionStep ==
  \/ \E args \in Calls : generateQuestion_call(args)
  \/ \E q \in InFlight, reply \in HealthReplies : generateQuestion_probed(q, reply)
  \/ \E q \in InFlight, reply \in LocalReplies : generateQuestion_local(q, reply)
  \/ \E q \in InFlight, reply \in RemoteReplies : generateQuestion_remote(q, reply)

\* the fingerprint <type>-<difficulty>-<topic or default> of a call
Fingerprint(q) ==
  q.type.s \o "-" \o q.difficulty.s \o "-" \o
    (IF q.topic \in {Null, Str("")} THEN "default" ELSE q.topic.s)

\* C8: a call that resolves through a successful local or remote generation
\* writes exactly one cache entry, under its own fingerprint, with the time
\* of the write, and leaves all other entries unchanged; no other step of
\* generateQuestion writes the cache.
C8_OneWriteOnSuccess ==
  [][GenerateQuestionStep =>
       IF ReturnedGenerated'
       THEN LET k == Fingerprint(observed')
            IN /\ observed'.writes = 1
               /\ DOMAIN questionCache' = DOMAIN questionCache \cup {k}
               /\ questionCache'[k] = [data |-> observed'.outcome.value,
                                       timestamp |-> now']
               /\ \A k2 \in DOMAIN questionCache \ {k} :
                    questionCache'[k2] = questionCache[k2]
       ELSE questionCache' = questionCache]_vars

\* a generation was cached under its fingerprint at the current time next to
\* an older entry of another fingerprint
C8_Witness ==
  /\ ReturnedGenerated
  /\ observed.writes = 1
  /\ Fingerprint(observed) \in DOMAIN questionCache
  /\ questionCache[Fingerprint(observed)].timestamp = now
  /\ \E k2 \in DOMAIN questionCache :
       k2 # Fingerprint(observed) /\ questionCache[k2].timestamp < now

\* the source member of the JSON object embedded in the text field of v
EmbeddedSource(v) ==
  LET ex == Extract(Get(v, "text"))
  IN IF ex.ok /\ "source" \in DOMAIN ex.o
     THEN [found |-> TRUE, v |-> ex.o["source"]]
     ELSE [found |-> FALSE]

C11_HitNeverRefreshes ==
  /\ [][ReturnedHit' => questionCache' = questionCache]_vars
  /\ [][\A k \in DOMAIN questionCache \cap DOMAIN questionCache' :
          questionCache'[k].timestamp # questionCache[k].timestamp =>
            /\ ReturnedGenerated'
            /\ Fingerprint(observed') = k
            /\ questionCache'[k].timestamp = now']_vars
  /\ [](ReturnedHit =>
          /\ observed.age = now - questionCache[KeyOf(observed)].timestamp
          /\ observed.age < CACHE_DURATION)

\* a hit served an entry 299999 ms after its write and the entry still
\* carries the time of that write
C11_Witness ==
  /\ ReturnedHit
  /\ now = 299999
  /\ questionCache[KeyOf(observed)].timestamp = 0
  /\ observed.age = 299999

(***************************************************************************)
(* The same program called with and without a topic: the calls differ in   *)
(* the topic argument only.                                                *)
(***************************************************************************)
CallsByTopic ==
  {<<Str("riddle"), Str("medium"), Undef>>,
   <<Str("riddle"), Str("medium"), Str("default")>>}

NextByTopic ==
  \/ \E args \in CallsByTopic : generateQuestion_call(args)
  \/ \E q \in InFlight, reply \in HealthReplies : generateQuestion_probed(q, reply)
  \/ \E q \in InFlight, reply \in LocalReplies : generateQuestion_local(q, reply)
  \/ \E q \in InFlight, reply \in RemoteReplies : generateQuestion_remote(q, reply)
  \/ \E d \in TickSteps : Tick(d)

SpecByTopic == Init /\ [][NextByTopic]_vars

\* the topics C12 speaks of: none (null) and the literal "default"
C12_Topics == {Null, Str("default")}

\* C12: the cache key is a function of (type, difficulty, topic) alone, and a
\* call without a topic (null) has the key of the same call with topic
\* "default": what either of them caches is a valid entry for the other, and
\* a hit of either returns the one entry stored under that shared key.
C12_DefaultTopicSharesEntry ==
  /\ \A q \in AllCalls : q.pc # "idle" => KeyOf(q) = Fingerprint(q)
  /\ \A q \in AllCalls :
       q.pc # "idle" /\ q.topic \in C12_Topics =>
         \A tp \in C12_Topics : CacheKey(q.type, q.difficulty, tp) = KeyOf(q)
  /\ ReturnedGenerated /\ observed.topic \in C12_Topics =>
       \A tp \in C12_Topics :
         LET k == CacheKey(observed.type, observed.difficulty, tp)
         IN /\ CacheHit(questionCache, k, now)
            /\ questionCache[k].data = observed.outcome.value
  /\ ReturnedHit /\ observed.topic \in C12_Topics =>
       \A tp \in C12_Topics :
         LET k == CacheKey(observed.type, observed.difficulty, tp)
         IN observed.outcome.value = HitResult(questionCache[k])

\* a call with topic "default" was served from the cache while a call
\* without a topic, which missed before the entry was written, is still
\* generating for the same key
C12_Witness ==
  /\ ReturnedHit
  /\ observed.topic = Str("default")
  /\ \E q \in InFlight : q.topic = Null /\ KeyOf(q) = KeyOf(observed)
  /\ DOMAIN questionCache = {"riddle-medium-default"}

\* C13: the backends are tried in strict order. generateWithAPI is called
\* only after the probe of the same call reported the local backend
\* unavailable or after its local generation threw; when the local
\* generation returns, the call makes no remote call at all and returns the
\* artifact that generateWithLocalAI built.
C13_StrictTierPriority ==
  \A q \in AllCalls :
    /\ q.apiCalls > 0 =>
         /\ q.probes = 1
         /\ \/ q.probe = "down" /\ q.localCalls = 0
            \/ q.probe = "up" /\ q.localCalls = 1 /\ q.local = "threw"
    /\ q.pc = "local" => q.apiCalls = 0 /\ q.api = "none"
    /\ q.local = "returned" =>
         /\ q.pc = "done"
         /\ q.probe = "up"
         /\ q.apiCalls = 0
         /\ q.apiPosts = 0
         /\ q.api = "none"
         /\ q.reply = NoReply
         /\ Get(q.outcome.value, "performance").ty = "obj"

\* with a configured remote credential, a call returned its local artifact
\* without any remote call
C13_Witness ==
  /\ Returned
  /\ API_KEY = Str("sk-key")
  /\ observed.local = "returned"
  /\ observed.apiCalls = 0
  /\ Get(observed.outcome.value, "q") = Str("Q1")

\* C14: nothing is retried. A call sends at most one health probe, calls
\* generateWithLocalAI at most once and generateWithAPI at most once, with at
\* most one post to the remote endpoint; the step in which it returns takes
\* it out of the calls awaiting a reply, so it makes no call afterwards.
C14_NoRetries ==
  /\ [](\A q \in AllCalls :
          /\ q.probes <= 1
          /\ q.localCalls <= 1
          /\ q.apiCalls <= 1
          /\ q.apiPosts <= q.apiCalls)
  /\ [](\A q \in InFlight : q.pc \in {"probe", "local", "remote"})
  /\ [][Returned' /\ ~ReturnedHit' =>
          \E q \in InFlight :
            /\ inflight' = inflight (-) SetToBag({q})
            /\ <<q.type, q.difficulty, q.topic>> =
                 <<observed'.type, observed'.difficulty, observed'.topic>>
            /\ observed'.probes = q.probes
            /\ observed'.localCalls = q.localCalls
            /\ observed'.apiPosts = q.apiPosts]_vars

\* a call returned after one failed local generation and one failed post to
\* the remote endpoint, and no call is left in flight
C14_Witness ==
  /\ Returned
  /\ observed.local = "threw"
  /\ observed.localCalls = 1
  /\ observed.reply = Response(429, Obj(<<>>))
  /\ observed.apiPosts = 1
  /\ inflight = EmptyBag

\* C15: a call that misses the cache sends exactly one health probe, before
\* any generation call, and what it does next follows from the result of
\* that probe alone: local generation is attempted exactly when its own probe
\* said available. No probe result is carried from one call to another: a
\* call that misses starts with no result known, whatever the calls in
\* flight have found.
C15_OwnProbeEachMiss ==
  /\ [](\A q \in AllCalls :
          /\ q.pc = "probe" =>
               /\ q.probes = 1
               /\ q.probe = "none"
               /\ q.localCalls = 0
               /\ q.apiCalls = 0
          /\ q.localCalls + q.apiCalls > 0 =>
               /\ q.probes = 1
               /\ q.probe \in {"up", "down"}
          /\ q.pc \in {"local", "remote"} => (q.localCalls = 1 <=> q.probe = "up"))
  /\ [][observed'.pc = "probe" =>
          inflight' = inflight (+)
            SetToBag({[observed' EXCEPT !.age = -1]})]_vars
  /\ [][\A q \in InFlight' :
          q.pc # "probe" /\ q.probes = 1 /\ q.apiCalls + q.localCalls = 1 =>
            \/ q \in InFlight
            \/ [q EXCEPT !.pc = "probe", !.probe = "none", !.local = "none",
                         !.api = "none", !.localCalls = 0, !.apiCalls = 0,
                         !.apiPosts = 0] \in InFlight]_vars

\* two calls in flight whose probes gave different results: one awaits the
\* remote reply after a probe that said unavailable, the other the local
\* reply after a probe that said available
C15_Witness ==
  \E q1, q2 \in InFlight :
    /\ q1.pc = "remote" /\ q1.probe = "down" /\ q1.probes = 1
    /\ q2.pc = "local" /\ q2.probe = "up" /\ q2.probes = 1
    /\ KeyOf(q1) = KeyOf(q2)

(***************************************************************************)
(* checkLocalAI on its own: a probe is pending and the network delivers    *)
(* any of these replies to GET /health.                                    *)
(***************************************************************************)
HealthStatuses == {199, 200, 201, 204, 299, 300, 304, 404, 500, 503}

HealthBodies ==
  {Obj([status |-> Str("healthy")]),
   Obj([status |-> Str("healthy"), model |-> Str("deepseek-v3")]),
   Obj([status |-> Str("Healthy")]),
   Obj([status |-> Str("loading")]),
   Obj([status |-> Str("")]),
   Obj([status |-> Bool(TRUE)]),
   Obj([status |-> Num(1)]),
   Obj([status |-> Null]),
   Obj([state |-> Str("healthy")]),
   Obj(<<>>),
   Str("healthy"),
   Str(""),
   Null}

ProbeReplies ==
  {Response(s, b) : s \in HealthStatuses, b \in HealthBodies} \cup
  {NetworkError, Timeout}

\* a call has missed the cache and awaits this reply to its probe
InitProbe ==
  /\ questionCache = <<>>
  /\ now = 0
  /\ API_KEY \in ApiKeys
  /\ inflight = EmptyBag
  /\ \E reply \in ProbeReplies :
       observed = [Idle EXCEPT !.pc = "probe", !.probes = 1, !.reply = reply]

\* the promise of checkLocalAI settles
checkLocalAI_settles ==
  /\ observed.pc = "probe"
  /\ LET out == checkLocalAI_outcome(observed.reply)
     IN observed' = [observed EXCEPT
                       !.pc = "probed",
                       !.probe = IF checkLocalAI(observed.reply) THEN "up" ELSE "down",
                       !.outcome = out]
  /\ UNCHANGED <<questionCache, now, API_KEY, inflight>>

NextProbe == checkLocalAI_settles

SpecProbe == InitProbe /\ [][NextProbe]_vars

\* GET /health completed with a success status and a body whose status
\* member is the string healthy
C16_Healthy(reply) ==
  /\ reply.kind = "response"
  /\ reply.status \in 200 .. 299
  /\ reply.data.ty = "obj"
  /\ "status" \in DOMAIN reply.data.o
  /\ reply.data.o["status"] = Str("healthy")

\* C16: checkLocalAI never throws: its promise always resolves to a boolean.
\* It resolves to true only when GET /health completes with a success status
\* and a body whose status is exactly "healthy"; a network error, a timeout,
\* a non-success status, a body without a status member and any other
\* status value give false.
C16_ProbeTrueOnlyWhenHealthy ==
  observed.pc = "probed" =>
    /\ observed.outcome.kind = "resolved"
    /\ observed.outcome.value.ty = "bool"
    /\ observed.outcome.value.b <=> C16_Healthy(observed.reply)
    /\ observed.probe = "up" <=> C16_Healthy(observed.reply)

\* the probe resolved to false for a 503 reply whose body says healthy
C16_Witness ==
  /\ observed.pc = "probed"
  /\ observed.reply = Response(503, Obj([status |-> Str("healthy")]))
  /\ observed.outcome = [kind |-> "resolved", value |-> Bool(FALSE)]

\* C17: concurrent calls for one key are not deduplicated. Whether a call
\* hits or misses is decided by the cache alone, so a call that starts while
\* another call for its key is still in flight and nothing valid is cached
\* misses too and joins the calls in flight with a probe and a generation of
\* its own; each successful generation overwrites the entry of its key, so
\* the cache holds the artifact of the call that wrote last.
C17_NoDeduplication ==
  /\ [][observed'.pc \in {"probe", "done"} /\ observed'.local = "none"
          /\ observed'.api = "none" =>
          (observed'.pc = "done" <=>
             CacheHit(questionCache, KeyOf(observed'), now))]_vars
  /\ [][observed'.pc = "probe" =>
          /\ observed'.probes = 1
          /\ BagCardinality(inflight') = BagCardinality(inflight) + 1
          /\ {o \in InFlight' : KeyOf(o) = KeyOf(observed')} =
               {o \in InFlight : KeyOf(o) = KeyOf(observed')} \cup
               {[observed' EXCEPT !.age = -1]}]_vars
  /\ [](\A q \in InFlight : q.probes = 1 /\ q.writes = 0)
  /\ [][ReturnedGenerated' =>
          /\ observed'.writes = 1
          /\ questionCache'[KeyOf(observed')] =
               [data |-> observed'.outcome.value, timestamp |-> now']]_vars

\* a call has written its local artifact to the cache while another call for
\* the same key, which missed before that write, awaits the reply to its own
\* remote post
C17_Witness ==
  /\ ReturnedGenerated
  /\ observed.local = "returned"
  /\ \E q \in InFlight :
       /\ KeyOf(q) = KeyOf(observed)
       /\ q.pc = "remote"
       /\ q.probes = 1
       /\ q.apiPosts = 1
  /\ questionCache[KeyOf(observed)].timestamp = now

(***************************************************************************)
(* Progress, under the condition that every network call returns or fails.*)
(* The code bounds the probe only (timeout: 2000, line 155); the two posts *)
(* carry no timeout, so for them the condition is an assumption about the  *)
(* network. It is stated as weak fairness of the step that delivers the    *)
(* reply a call awaits: such a step stays enabled until it is taken.       *)
(***************************************************************************)
\* the calls of the progress specification
LiveCalls == {<<Str("trivia"), Str("easy"), Undef>>}

\* the states in which a call can await a reply
Awaiting ==
  LET started(args) ==
        [Idle EXCEPT !.type = Default(args[1], Str("riddle")),
                     !.difficulty = Default(args[2], Str("medium")),
                     !.topic = Default(args[3], Null),
                     !.pc = "probe", !.probes = 1]
      atLocal(p) ==
        [p EXCEPT !.pc = "local", !.probe = "up", !.local = "called",
                  !.localCalls = 1]
      atRemote(p) ==
        [p EXCEPT !.pc = "remote", !.api = "called", !.apiCalls = 1,
                  !.apiPosts = 1]
  IN UNION {{started(args),
             atLocal(started(args)),
             atRemote([started(args) EXCEPT !.probe = "down"]),
             atRemote([atLocal(started(args)) EXCEPT !.local = "threw"])} :
            args \in LiveCalls}

\* the reply that call q awaits arrives
ReplyArrives(q) ==
  \/ \E reply \in HealthReplies : generateQuestion_probed(q, reply)
  \/ \E reply \in LocalReplies : generateQuestion_local(q, reply)
  \/ \E reply \in RemoteReplies : generateQuestion_remote(q, reply)

NextLive ==
  \/ \E args \in LiveCalls : generateQuestion_call(args)
  \/ \E q \in InFlight : ReplyArrives(q)
  \/ \E d \in TickSteps : Tick(d)

Fairness == \A q \in Awaiting : WF_vars(ReplyArrives(q))

SpecLive == Init /\ [][NextLive]_vars /\ Fairness

\* the position of a call among CacheLookup (0), ProbeLocal (1), TryLocal
\* (2), TryRemote (3), UseFallback (4) and Respond (5); the catch block and
\* the return share one step of the model, so a call that is done after a
\* remote failure has passed UseFallback
C18_Rank(q) ==
  CASE q.pc = "idle" -> 0
    [] q.pc = "probe" -> 1
    [] q.pc = "local" -> 2
    [] q.pc = "remote" -> 3
    [] q.pc = "done" -> 5

\* the stages the call has entered, as its record tells
C18_Entered(q) ==
  {s \in 1 .. 4 :
     CASE s = 1 -> q.probes > 0
       [] s = 2 -> q.localCalls > 0
       [] s = 3 -> q.apiCalls > 0
       [] s = 4 -> q.api = "threw"}

\* C18: provided every network call returns or fails, every call in flight
\* eventually returns. On its way it passes ProbeLocal, TryLocal, TryRemote
\* and UseFallback in this order, each at most once: every step moves one
\* call to a later stage, and no stage is entered twice.
C18_TerminatesInOrder ==
  /\ \A q \in Awaiting :
       (q \in InFlight) ~>
         (Returned /\ observed.outcome.kind = "resolved"
          /\ <<observed.type, observed.difficulty, observed.topic>> =
               <<q.type, q.difficulty, q.topic>>)
  /\ [](InFlight \subseteq Awaiting)
  /\ [](\A q \in AllCalls :
          /\ q.probes <= 1 /\ q.localCalls <= 1 /\ q.apiCalls <= 1
          /\ q.pc = "probe" => C18_Entered(q) = {1}
          /\ q.pc = "local" => C18_Entered(q) = {1, 2}
          /\ q.pc = "remote" => C18_Entered(q) \in {{1, 3}, {1, 2, 3}}
          /\ q.pc = "done" =>
               C18_Entered(q) \in {{}, {1, 2}, {1, 3}, {1, 2, 3}, {1, 3, 4}, {1, 2, 3, 4}})
  /\ [][inflight' # inflight =>
          \/ /\ observed'.pc = "probe"
             /\ inflight' = inflight (+) SetToBag({[observed' EXCEPT !.age = -1]})
          \/ \E old \in InFlight :
               \/ /\ observed'.pc = "done"
                  /\ C18_Rank(old) < C18_Rank(observed')
                  /\ C18_Entered(old) \subseteq C18_Entered(observed')
                  /\ inflight' = inflight (-) SetToBag({old})
               \/ \E new \in Awaiting :
                    /\ C18_Rank(old) < C18_Rank(new)
                    /\ C18_Entered(old) \subseteq C18_Entered(new)
                    /\ <<new.type, new.difficulty, new.topic>> =
                         <<old.type, old.difficulty, old.topic>>
                    /\ inflight' = (inflight (-) SetToBag({old})) (+)
                                   SetToBag({new})]_vars

\* a call has returned the fallback after passing every stage once: probe,
\* failed local generation, failed remote post
C18_Witness ==
  /\ Returned
  /\ C18_Entered(observed) = {1, 2, 3, 4}
  /\ observed.probes = 1 /\ observed.localCalls = 1 /\ observed.apiPosts = 1
  /\ Get(observed.outcome.value, "source") = Str("fallback")

\* the build has no remote credential, or the placeholder of the template
C19_NoCredential == API_KEY \in {Undef, PLACEHOLDER_KEY}

\* C19: when the remote credential is absent or is the placeholder
\* YOUR_DEEPSEEK_API_KEY, generateWithAPI fails before sending anything: no
\* call ever posts to the remote endpoint or awaits a remote reply, and a
\* call that reaches the remote attempt returns the static fallback in the
\* same step. With a real credential the remote attempt always posts.
C19_NoCredentialNoPost ==
  \A q \in AllCalls :
    /\ C19_NoCredential =>
         /\ q.apiPosts = 0
         /\ q.pc # "remote"
         /\ q.api \in {"none", "threw"}
         /\ q.apiCalls = 1 =>
              /\ q.pc = "done"
              /\ q.api = "threw"
              /\ q.reply = NoReply
              /\ q.writes = 0
              /\ q.outcome = [kind |-> "resolved",
                              value |-> Fallback(q.type, q.difficulty)]
    /\ ~C19_NoCredential => q.apiPosts = q.apiCalls

\* with the placeholder as credential, a call whose probe said unavailable
\* returned the trivia fallback without any post
C19_Witness ==
  /\ Returned
  /\ API_KEY = PLACEHOLDER_KEY
  /\ observed.probe = "down"
  /\ observed.apiCalls = 1
  /\ observed.apiPosts = 0
  /\ observed.outcome.value = fallbacks(Str("easy")).trivia

(***************************************************************************)
(* generateWithAPI on its own: the remote attempt of a call is about to    *)
(* start, and the network will deliver any of these replies to its post.   *)
(***************************************************************************)
ApiStatuses == {200, 201, 400, 401, 402, 403, 404, 429, 500, 503}

ApiBodies ==
  {Chat(Text(<<W, LB, M("q", Str("Q3")), M("a", Str("A3")), RB, W>>)),
   Chat(Text(<<W>>)),
   Obj([choices |-> Arr(<<Obj([message |-> Obj(<<>>)])>>)]),
   Obj([choices |-> Arr(<<>>)]),
   Obj([error |-> Obj([message |-> Str("Insufficient Balance")])]),
   Obj(<<>>),
   Null}

ApiReplies ==
  {Response(s, b) : s \in ApiStatuses, b \in ApiBodies} \cup
  {NetworkError, Timeout}

\* generateWithAPI('trivia', 'easy', ...) has been called; reply is what
\* the network holds for its post
InitAPI ==
  /\ questionCache = <<>>
  /\ now = 0
  /\ API_KEY \in ApiKeys
  /\ inflight = EmptyBag
  /\ \E reply \in ApiReplies :
       observed = [Idle EXCEPT !.type = Str("trivia"), !.difficulty = Str("easy"),
                               !.pc = "api", !.api = "called", !.apiCalls = 1,
                               !.reply = reply]

\* generateWithAPI up to its await: the credential check, then the post
generateWithAPI_call ==
  /\ observed.pc = "api"
  /\ IF ApiKeyConfigured(API_KEY)
     THEN observed' = [observed EXCEPT !.pc = "remote", !.apiPosts = @ + 1]
     ELSE observed' = [observed EXCEPT !.pc = "settled", !.api = "threw",
                                       !.reply = NoReply,
                                       !.outcome = [kind |-> "rejected",
                                                    err |-> NotConfigured]]
  /\ UNCHANGED <<questionCache, now, API_KEY, inflight>>

\* the promise of the post settles and generateWithAPI returns or throws
generateWithAPI_settles ==
  /\ observed.pc = "remote"
  /\ LET res == generateWithAPI_response(observed.reply, observed.type,
                                         observed.difficulty)
     IN observed' =
          IF res.ok
          THEN [observed EXCEPT !.pc = "settled", !.api = "returned",
                                !.outcome = [kind |-> "resolved", value |-> res.val]]
          ELSE [observed EXCEPT !.pc = "settled", !.api = "threw",
                                !.outcome = [kind |-> "rejected", err |-> res.err]]
  /\ UNCHANGED <<questionCache, now, API_KEY, inflight>>

NextAPI == generateWithAPI_call \/ generateWithAPI_settles

SpecAPI == InitAPI /\ [][NextAPI]_vars

\* C20 as stated: generateWithAPI fails with its own error for each of the
\* HTTP outcomes 402 (payment required), 401 (unauthorized) and 429 (rate
\* limited); the three errors differ from each other and from the error for
\* a missing credential.
C20_TypedErrorPerStatus ==
  /\ Cardinality({PaymentRequired, Unauthorized, RateLimited, NotConfigured}) = 4
  /\ observed.pc = "settled" /\ observed.reply.kind = "response" =>
       /\ observed.reply.status = 402 =>
            observed.outcome = [kind |-> "rejected", err |-> PaymentRequired]
       /\ observed.reply.status = 401 =>
            observed.outcome = [kind |-> "rejected", err |-> Unauthorized]
       /\ observed.reply.status = 429 =>
            observed.outcome = [kind |-> "rejected", err |-> RateLimited]

(***************************************************************************)
(* The catch block of generateQuestion on its own: an error has been       *)
(* thrown inside the try block of a call, in any state of the cache and    *)
(* with any credential.                                                    *)
(***************************************************************************)
CatchTypes == {Str("riddle"), Str("trivia"), Str("emoji"), Str("word")}

CatchDifficulties == {Str("easy"), Str("medium"), Str("hard"), Num(3)}

CatchErrors ==
  {NotConfigured, TypeError, AxiosError(NetworkError),
   AxiosError(Response(402, Obj(<<>>)))}

\* the cache is empty or holds an artifact under the key of the call
CatchCaches(key) ==
  {<<>>,
   key :> [data |-> Obj([question |-> Str("Q"), answer |-> Str("A"),
                         source |-> Str("api")]),
           timestamp |-> 0]}

InitCatch ==
  /\ now = 0
  /\ API_KEY \in ApiKeys
  /\ inflight = EmptyBag
  /\ \E type \in CatchTypes, difficulty \in CatchDifficulties, err \in CatchErrors :
       /\ questionCache \in CatchCaches(CacheKey(type, difficulty, Null))
       /\ observed = [Idle EXCEPT !.type = type, !.difficulty = difficulty,
                                  !.topic = Null, !.pc = "catch",
                                  !.probes = 1, !.probe = "down",
                                  !.apiCalls = 1, !.api = "threw",
                                  !.outcome = [kind |-> "thrown", err |-> err]]

\* catch (error) { ... return fallbacks[type] || fallbacks.riddle }
generateQuestion_catch ==
  /\ observed.pc = "catch"
  /\ observed' = [observed EXCEPT
                    !.pc = "done",
                    !.outcome = OuterCatch(observed.type, observed.difficulty,
                                           observed.outcome.err)]
  /\ UNCHANGED <<questionCache, now, API_KEY, inflight>>

NextCatch == generateQuestion_catch

SpecCatch == InitCatch /\ [][NextCatch]_vars

\* C21: the static fallback never fails and is a fixed artifact per content
\* type, tagged source = fallback, the same whatever the cache holds, the
\* credential is and the error was; only its difficulty member, where it has
\* one, echoes the difficulty of the call. The riddle has category logic and
\* answer "An echo"; the trivia has exactly 4 choices and answerIdx 2.
C21_FallbackFixedPerType ==
  observed.pc = "done" =>
    LET v == observed.outcome.value
        fixed == fallbacks(Null)[observed.type.s]
    IN /\ observed.outcome.kind = "resolved"
       /\ v.ty = "obj"
       /\ DOMAIN v.o = DOMAIN fixed.o
       /\ \A f \in DOMAIN v.o \ {"difficulty"} : v.o[f] = fixed.o[f]
       /\ "difficulty" \in DOMAIN v.o => v.o["difficulty"] = observed.difficulty
       /\ Get(v, "source") = Str("fallback")
       /\ observed.type = Str("riddle") =>
            Get(v, "category") = Str("logic") /\ Get(v, "a") = Str("An echo")
       /\ observed.type = Str("trivia") =>
            /\ Get(v, "choices").ty = "arr"
            /\ Len(Get(v, "choices").a) = 4
            /\ Get(v, "answerIdx") = Num(2)
       /\ observed.type = Str("emoji") => Get(v, "answer") = Str("APPLE")
       /\ observed.type = Str("word") => Get(v, "word") = Str("PUZZLE")

\* the trivia fallback was returned while the cache holds an entry for the
\* key of the call
C21_Witness ==
  /\ observed.pc = "done"
  /\ observed.type = Str("trivia")
  /\ observed.difficulty = Str("hard")
  /\ questionCache # <<>>
  /\ Get(observed.outcome.value, "answerIdx") = Num(2)
  /\ Get(observed.outcome.value, "difficulty") = Undef

(***************************************************************************)
(* The exported functions together: generateQuestion, getAIMetrics,        *)
(* clearQuestionCache and getCacheStats.                                   *)
(***************************************************************************)
Max(a, b) == IF a >= b THEN a ELSE b

RECURSIVE GCD(_, _)
GCD(a, b) == IF b = 0 THEN a ELSE GCD(b, a % b)

\* the number n / d for naturals n and d > 0, in lowest terms
Quotient(n, d) ==
  [ty |-> "num", n |-> n \div GCD(n, d), d |-> d \div GCD(n, d)]

\* CacheStats with total_entries counting the valid entries only
CacheStats_validOnly(cache, t) ==
  LET valid == {k \in DOMAIN cache : t - cache[k].timestamp < CACHE_DURATION}
  IN Obj([total_entries |-> Num(Cardinality(valid)),
          valid_entries |-> Num(Cardinality(valid)),
          cache_hit_potential |->
            Quotient(Cardinality(valid), Max(Cardinality(valid), 1))])

\* what getCacheStats returns for this cache at time t
CacheStats(cache, t) ==
  LET valid == {k \in DOMAIN cache : t - cache[k].timestamp < CACHE_DURATION}
  IN Obj([total_entries |-> Num(Cardinality(DOMAIN cache)),
          valid_entries |-> Num(Cardinality(valid)),
          cache_hit_potential |->
            Quotient(Cardinality(valid), Max(Cardinality(DOMAIN cache), 1))])

getCacheStats ==
  /\ observed' = [Idle EXCEPT !.pc = "stats",
                              !.outcome = [kind |-> "resolved",
                                           value |-> CacheStats(questionCache, now)]]
  /\ UNCHANGED <<questionCache, now, API_KEY, inflight>>

\* clearQuestionCache that removes the expired entries only
clearQuestionCache_expiredOnly ==
  /\ questionCache' =
       [k \in {k \in DOMAIN questionCache :
                 now - questionCache[k].timestamp < CACHE_DURATION} |->
          questionCache[k]]
  /\ observed' = [Idle EXCEPT !.pc = "cleared"]
  /\ UNCHANGED <<now, API_KEY, inflight>>

\* clearQuestionCache that also drops the calls in flight
clearQuestionCache_cancels ==
  /\ questionCache' = <<>>
  /\ inflight' = EmptyBag
  /\ observed' = [Idle EXCEPT !.pc = "cleared"]
  /\ UNCHANGED <<now, API_KEY>>

\* questionCache.clear()
clearQuestionCache ==
  /\ questionCache' = <<>>
  /\ observed' = [Idle EXCEPT !.pc = "cleared"]
  /\ UNCHANGED <<now, API_KEY, inflight>>

MetricsReplies ==
  {Response(200, Obj([requests |-> Num(7), avg_inference_ms |-> Num(120)])),
   Response(200, Null),
   Response(500, Obj([error |-> Str("down")])),
   NetworkError}

\* getAIMetrics up to its await: GET /metrics is sent
getAIMetrics_call ==
  /\ BagCardinality(inflight) < MaxInFlight
  /\ inflight' = inflight (+) SetToBag({[Idle EXCEPT !.pc = "metrics"]})
  /\ observed' = Idle
  /\ UNCHANGED <<questionCache, now, API_KEY>>

\* the try block of getAIMetrics: return response.data
getAIMetrics_try(reply) ==
  IF AxiosFulfils(reply) THEN [ok |-> TRUE, val |-> reply.data]
  ELSE [ok |-> FALSE, err |-> AxiosError(reply)]

\* getAIMetrics without its catch: a failure of GET /metrics rejects
getAIMetrics_outcome_noCatch(reply) ==
  LET r == getAIMetrics_try(reply)
  IN IF r.ok THEN [kind |-> "resolved", value |-> r.val]
     ELSE [kind |-> "rejected", err |-> r.err]

\* catch (error) { console.warn(...); return null }
getAIMetrics_outcome(reply) ==
  LET r == getAIMetrics_try(reply)
  IN [kind |-> "resolved", value |-> IF r.ok THEN r.val ELSE Null]

\* the promise of GET /metrics settles and getAIMetrics returns
getAIMetrics_settles(q, reply) ==
  /\ q \in InFlight
  /\ q.pc = "metrics"
  /\ inflight' = inflight (-) SetToBag({q})
  /\ observed' = [q EXCEPT !.pc = "metrics-done", !.reply = reply,
                           !.outcome = getAIMetrics_outcome(reply)]
  /\ UNCHANGED <<questionCache, now, API_KEY>>

ModuleCalls ==
  {<<Undef, Undef, Undef>>,
   <<Str("trivia"), Str("easy"), Undef>>}

\* one reply that succeeds and one that fails, for each endpoint
ModuleHealthReplies ==
  {Response(200, Obj([status |-> Str("healthy")])), Timeout}

ModuleLocalReplies ==
  {Response(200, Obj([text |-> Text(<<LB, M("q", Str("Q1")), M("a", Str("A1")), RB>>),
                      model_used |-> Str("deepseek-v3")])),
   NetworkError}

ModuleRemoteReplies ==
  {Response(200, Chat(Text(<<LB, M("question", Str("Q3")), M("answer", Str("A3")), RB>>))),
   Response(503, Obj(<<>>))}

NextModule ==
  \/ \E args \in ModuleCalls : generateQuestion_call(args)
  \/ \E q \in InFlight, reply \in ModuleHealthReplies : generateQuestion_probed(q, reply)
  \/ \E q \in InFlight, reply \in ModuleLocalReplies : generateQuestion_local(q, reply)
  \/ \E q \in InFlight, reply \in ModuleRemoteReplies : generateQuestion_remote(q, reply)
  \/ getAIMetrics_call
  \/ \E q \in InFlight, reply \in MetricsReplies : getAIMetrics_settles(q, reply)
  \/ clearQuestionCache
  \/ getCacheStats
  \/ \E d \in TickSteps : Tick(d)

SpecModule == Init /\ [][NextModule]_vars

\* C22: getCacheStats reports total_entries = the number of entries in the
\* cache, expired ones included, valid_entries = the number of entries with
\* now - timestamp < CACHE_DURATION and cache_hit_potential = valid_entries /
\* max(total_entries, 1). So valid_entries <= total_entries, the potential is
\* 0 for an empty cache, and the call leaves the cache as it is.
C22_CacheStatsCounts ==
  /\ [](observed.pc = "stats" =>
          LET v == observed.outcome.value
              total == Get(v, "total_entries")
              valid == Get(v, "valid_entries")
              pot == Get(v, "cache_hit_potential")
          IN /\ observed.outcome.kind = "resolved"
             /\ total = Num(Cardinality(DOMAIN questionCache))
             /\ valid = Num(Cardinality({k \in DOMAIN questionCache :
                                           now - questionCache[k].timestamp < 300000}))
             /\ valid.n <= total.n
             /\ pot.d > 0
             /\ pot.n * (IF total.n = 0 THEN 1 ELSE total.n) = valid.n * pot.d
             /\ questionCache = <<>> => pot.n = 0)
  /\ [][observed'.pc = "stats" => questionCache' = questionCache]_vars

\* the statistics count two entries of which one has expired: potential 1/2
C22_Witness ==
  /\ observed.pc = "stats"
  /\ Get(observed.outcome.value, "total_entries") = Num(2)
  /\ Get(observed.outcome.value, "valid_entries") = Num(1)
  /\ Get(observed.outcome.value, "cache_hit_potential") = Quotient(1, 2)
  /\ \E k \in DOMAIN questionCache : now - questionCache[k].timestamp = 300000

\* C23: clearQuestionCache removes every entry, valid or expired. In the
\* state it leaves, getCacheStats would report total_entries 0 and no key
\* has a valid entry; a getCacheStats call that comes next reports 0 and a
\* generateQuestion call that comes next misses and sends its probe.
C23_ClearRemovesAll ==
  /\ [](observed.pc = "cleared" =>
          /\ questionCache = <<>>
          /\ Get(CacheStats(questionCache, now), "total_entries") = Num(0)
          /\ \A args \in ModuleCalls :
               ~CacheHit(questionCache,
                         CacheKey(Default(args[1], Str("riddle")),
                                  Default(args[2], Str("medium")),
                                  Default(args[3], Null)), now))
  /\ [][observed.pc = "cleared" =>
          /\ observed'.pc = "stats" =>
               Get(observed'.outcome.value, "total_entries") = Num(0)
          /\ ~ReturnedHit'
          /\ (\E args \in ModuleCalls : generateQuestion_call(args)) =>
               observed'.pc = "probe" /\ observed'.probes = 1]_vars

\* the cache has just been cleared, 300000 ms after the first writes were
\* possible, while a call is still in flight
C23_Witness ==
  /\ observed.pc = "cleared"
  /\ questionCache = <<>>
  /\ now = 300000
  /\ \E q \in InFlight : q.pc = "remote"

\* the keys whose entry has expired at time t
C24_Expired(cache, t) ==
  {k \in DOMAIN cache : t - cache[k].timestamp >= 300000}

\* C24: an expired entry is never removed by a lookup or by time passing. It
\* stays in the cache unchanged, and counted in total_entries, until a call
\* of the same key returns a successful generation, which overwrites it, or
\* clearQuestionCache is called.
C24_ExpiredEntriesStay ==
  /\ [][\A k \in C24_Expired(questionCache, now) :
          \/ k \in DOMAIN questionCache' /\ questionCache'[k] = questionCache[k]
          \/ /\ ReturnedGenerated'
             /\ KeyOf(observed') = k
             /\ questionCache'[k].timestamp = now'
          \/ observed'.pc = "cleared"]_vars
  /\ [][now' # now \/ observed'.pc = "probe" \/ ReturnedHit' =>
          questionCache' = questionCache]_vars
  /\ [](observed.pc = "stats" =>
          Get(observed.outcome.value, "total_entries").n =
            Get(observed.outcome.value, "valid_entries").n +
            Cardinality(C24_Expired(questionCache, now)))

\* a lookup has just missed on an entry that expired, the entry is still in
\* the cache and getCacheStats would count it
C24_Witness ==
  /\ observed.pc = "probe"
  /\ observed.age = 300000
  /\ KeyOf(observed) \in C24_Expired(questionCache, now)
  /\ Get(CacheStats(questionCache, now), "total_entries") = Num(2)
  /\ Get(CacheStats(questionCache, now), "valid_entries") = Num(1)

\* a getAIMetrics call awaiting the reply to GET /metrics
C25_Pending == [Idle EXCEPT !.pc = "metrics"]

\* C25: getAIMetrics never throws. It resolves to the body of the /metrics
\* response when the request succeeds and to null on any failure, whatever
\* the cache holds; its steps leave the cache and every generateQuestion
\* call in flight as they are, so it has no part in the choice of a backend.
C25_MetricsNeverThrows ==
  /\ [](observed.pc = "metrics-done" =>
          /\ observed.outcome.kind = "resolved"
          /\ observed.outcome.value =
               IF /\ observed.reply.kind = "response"
                  /\ observed.reply.status \in 200 .. 299
               THEN observed.reply.data
               ELSE Null)
  /\ [][CopiesIn(C25_Pending, inflight') # CopiesIn(C25_Pending, inflight) =>
          /\ questionCache' = questionCache
          /\ API_KEY' = API_KEY
          /\ now' = now
          /\ observed'.pc \in {"idle", "metrics-done"}
          /\ \A q \in InFlight \cup InFlight' :
               q # C25_Pending => CopiesIn(q, inflight') = CopiesIn(q, inflight)]_vars

\* getAIMetrics returned null for a 500 reply while the cache holds an entry
\* and a generateQuestion call awaits its local generation
C25_Witness ==
  /\ observed.pc = "metrics-done"
  /\ observed.reply = Response(500, Obj([error |-> Str("down")]))
  /\ observed.outcome = [kind |-> "resolved", value |-> Null]
  /\ questionCache # <<>>
  /\ \E q \in InFlight : q.pc = "local"

(***************************************************************************)
(* The remote reply as text: a call awaits the reply to its remote post,   *)
(* and the model answers 200 with any text of up to MaxTextLen tokens.     *)
(***************************************************************************)
TextTokens == {LB, RB, W, M("question", Str("Q3")), M("answer", Str("A3"))}

Texts == UNION {[1 .. n -> TextTokens] : n \in 0 .. MaxTextLen}

TextReplies == {Response(200, Chat(Text(t))) : t \in Texts}

\* generateQuestion('trivia', 'easy') after a probe that said unavailable,
\* with a real credential, awaiting the reply to the post of generateWithAPI
InitRemoteText ==
  /\ questionCache = <<>>
  /\ now = 0
  /\ API_KEY = Str("sk-key")
  /\ inflight = SetToBag({[Idle EXCEPT !.type = Str("trivia"),
                                       !.difficulty = Str("easy"),
                                       !.topic = Null,
                                       !.pc = "remote", !.probes = 1,
                                       !.probe = "down", !.api = "called",
                                       !.apiCalls = 1, !.apiPosts = 1]})
  /\ observed = Idle

NextRemoteText ==
  \E q \in InFlight, reply \in TextReplies : generateQuestion_remote(q, reply)

SpecRemoteText == InitRemoteText /\ [][NextRemoteText]_vars

\* the text has no "{" followed somewhere by a "}"
C26_NoBraces(toks) ==
  ~\E i, j \in 1 .. Len(toks) : i < j /\ toks[i] = LB /\ toks[j] = RB

\* the stretch from the first "{" to the last "}" is not a JSON object
C26_Unparsable(toks) ==
  \E i, j \in 1 .. Len(toks) :
    /\ i < j /\ toks[i] = LB /\ toks[j] = RB
    /\ \A k \in 1 .. Len(toks) : toks[k] = LB => i <= k
    /\ \A k \in 1 .. Len(toks) : toks[k] = RB => k <= j
    /\ \E k \in i + 1 .. j - 1 : toks[k].t # "m"

\* C26: when the remote call succeeds but its text holds no brace-delimited
\* substring, or the substring matched does not parse, generateWithAPI does
\* not fail: it returns the best-effort artifact with the raw text as
\* question, the placeholder answer "Generated content", the game type as
\* category and source api, and generateQuestion caches and returns it
\* instead of the static fallback.
C26_BestEffortOnUnparsedText ==
  Returned /\ observed.reply.kind = "response" =>
    LET content == MessageContent(observed.reply.data)
        v == observed.outcome.value
    IN C26_NoBraces(content.toks) \/ C26_Unparsable(content.toks) =>
         /\ observed.api = "returned"
         /\ observed.outcome.kind = "resolved"
         /\ v = Obj([question |-> content,
                     answer |-> Str("Generated content"),
                     hint |-> Str("AI-generated content"),
                     difficulty |-> observed.difficulty,
                     category |-> observed.type,
                     source |-> Str("api"),
                     model_used |-> Str("deepseek-chat")])
         /\ v # Fallback(observed.type, observed.difficulty)
         /\ questionCache[KeyOf(observed)].data = v

\* the call returned the best-effort artifact for a text whose braces
\* enclose something that is not JSON
C26_Witness ==
  /\ Returned
  /\ MessageContent(observed.reply.data) = Text(<<LB, W, RB>>)
  /\ Get(observed.outcome.value, "answer") = Str("Generated content")
  /\ Get(observed.outcome.value, "source") = Str("api")

\* C27 as stated: every artifact that generateQuestion returns from a
\* successful local generation is tagged source = local, whatever the body
\* of the local backend's response contains.
C27_LocalAlwaysTaggedLocal ==
  Returned /\ observed.local = "returned" =>
    Get(observed.outcome.value, "source") = Str("local")

\* the artifact has exactly 4 choices and an answerIdx that is a position
\* of one of them
C28_TriviaWellFormed(v) ==
  /\ Get(v, "choices").ty = "arr"
  /\ Len(Get(v, "choices").a) = 4
  /\ Get(v, "answerIdx").ty = "num"
  /\ Get(v, "answerIdx").n \in 0 .. 3

\* an answer member, where there is one, is a non-empty string
C28_AnswerWellFormed(v) ==
  v.ty = "obj" /\ "answer" \in DOMAIN v.o =>
    v.o["answer"].ty = "str" /\ v.o["answer"].s # ""

\* C28 as stated: every trivia artifact that generateQuestion returns or
\* stores in the cache has exactly 4 choices and a valid answerIdx, and every
\* answer member is a non-empty string, whichever tier produced it.
C28_ArtifactsWellFormed ==
  /\ Returned /\ observed.type = Str("trivia") =>
       /\ C28_TriviaWellFormed(observed.outcome.value)
       /\ C28_AnswerWellFormed(observed.outcome.value)
  /\ \A k \in DOMAIN questionCache :
       /\ C28_TriviaWellFormed(questionCache[k].data)
       /\ C28_AnswerWellFormed(questionCache[k].data)

\* the number of tokens b among toks[i .. j]
C29_Count(toks, b, i, j) == Cardinality({k \in i .. j : toks[k] = b})

\* the first balanced brace-delimited block of the text: from the first "{"
\* to the first "}" after it at which as many "}" as "{" have been read
C29_FirstBlock(toks) ==
  LET lbs == {i \in 1 .. Len(toks) : toks[i] = LB}
  IN IF lbs = {} THEN [found |-> FALSE]
     ELSE LET i == CHOOSE i \in lbs : \A k \in lbs : i <= k
              ends == {j \in i + 1 .. Len(toks) :
                         /\ toks[j] = RB
                         /\ C29_Count(toks, LB, i, j) = C29_Count(toks, RB, i, j)}
          IN IF ends = {} THEN [found |-> FALSE]
             ELSE LET j == CHOOSE j \in ends : \A k \in ends : j <= k
                  IN [found |-> TRUE, toks |-> SubSeq(toks, i, j)]

\* C29 as stated: generateWithAPI parses the first balanced brace-delimited
\* block of the response text: whenever that block is a valid JSON object,
\* the artifact returned has the members of that object (under source and
\* model_used as the adapter sets them), also when more text with braces
\* follows the block.
C29_FirstBalancedBlockParsed ==
  Returned /\ observed.reply.kind = "response" =>
    LET content == MessageContent(observed.reply.data)
        blk == C29_FirstBlock(content.toks)
    IN blk.found /\ JSONParses(blk.toks) =>
         /\ observed.api = "returned"
         /\ \A f \in DOMAIN JSONParse(blk.toks) \ {"source", "model_used"} :
              Get(observed.outcome.value, f) = JSONParse(blk.toks)[f]

(***************************************************************************)
(* Objects are references. The caller of generateQuestion receives, on a   *)
(* miss, the very object that questionCache.set stored as data (lines      *)
(* 371-376), and on a hit a shallow copy { ...cached.data, cached: true }  *)
(* (line 335), whose nested arrays are those of the stored object. The     *)
(* static fallback is a fresh literal. The caller then writes to what it   *)
(* received.                                                               *)
(***************************************************************************)
\* v.f = x
SetField(v, f, x) == Obj((f :> x) @@ v.o)

\* v.f[0] = x
SetFirstElement(v, f, x) ==
  Obj((f :> Arr([v.o[f].a EXCEPT ![1] = x])) @@ v.o)

\* the caller assigns a member of the artifact it has just received
caller_setsField(f, x) ==
  /\ Returned
  /\ observed.outcome.value.ty = "obj"
  /\ observed' = [observed EXCEPT !.pc = "mutated",
                                  !.outcome.value = SetField(@, f, x)]
  /\ questionCache' =
       IF ReturnedGenerated
       THEN [questionCache EXCEPT ![KeyOf(observed)].data = SetField(@, f, x)]
       ELSE questionCache
  /\ UNCHANGED <<now, API_KEY, inflight>>

\* the caller assigns the first element of the choices array of the
\* artifact it has just received
caller_setsChoice(x) ==
  /\ Returned
  /\ Get(observed.outcome.value, "choices").ty = "arr"
  /\ Len(Get(observed.outcome.value, "choices").a) > 0
  /\ observed' = [observed EXCEPT !.pc = "mutated",
                                  !.outcome.value = SetFirstElement(@, "choices", x)]
  /\ questionCache' =
       IF ReturnedGenerated \/ ReturnedHit
       THEN [questionCache EXCEPT
               ![KeyOf(observed)].data = SetFirstElement(@, "choices", x)]
       ELSE questionCache
  /\ UNCHANGED <<now, API_KEY, inflight>>

CallerCalls == {<<Str("trivia"), Str("easy"), Undef>>}

CallerHealthReplies == {Timeout}

CallerRemoteReplies ==
  {Response(200, Chat(Text(<<LB, M("question", Str("Q3")),
                             M("choices", Arr(<<Str("London"), Str("Paris")>>)),
                             M("answerIdx", Num(1)), RB>>))),
   NetworkError}

NextCaller ==
  \/ \E args \in CallerCalls : generateQuestion_call(args)
  \/ \E q \in InFlight, reply \in CallerHealthReplies : generateQuestion_probed(q, reply)
  \/ \E q \in InFlight, reply \in CallerRemoteReplies : generateQuestion_remote(q, reply)
  \/ caller_setsField("question", Str("changed"))
  \/ caller_setsChoice(Str("changed"))
  \/ \E d \in TickSteps : Tick(d)

SpecCaller == Init /\ [][NextCaller]_vars

\* C30 as stated: the cache owns its entries. Nothing the caller does with
\* an artifact that generateQuestion returned, on a miss or on a hit, such
\* as assigning its members or the elements of its choices array, changes
\* what a later cache hit for that key returns.
C30_CallerCannotChangeCache ==
  [][observed'.pc = "mutated" =>
       \A k \in DOMAIN questionCache :
         /\ k \in DOMAIN questionCache'
         /\ HitResult(questionCache'[k]) = HitResult(questionCache[k])]_vars

(***************************************************************************)
(* The cache key on its own: two calls of generateQuestion with valid      *)
(* content types and difficulties and any of these topics.                 *)
(***************************************************************************)
KeyTypes == {Str("riddle"), Str("trivia"), Str("emoji"), Str("word")}

KeyDifficulties == {Str("easy"), Str("medium"), Str("hard")}

\* no topic, the empty topic, the literal "default" and topics with "-"
KeyTopics ==
  {Undef, Str(""), Str("default"), Str("sea-life"), Str("easy-default")}

KeyRequests == KeyTypes \X KeyDifficulties \X KeyTopics

InitKeys ==
  /\ questionCache = <<>>
  /\ now = 0
  /\ API_KEY \in ApiKeys
  /\ inflight = EmptyBag
  /\ \E a \in KeyRequests, b \in KeyRequests :
       observed = [pc |-> "called", a |-> a, b |-> b]

\* each of the two calls computes its cacheKey (line 330)
cacheKey_computed ==
  /\ observed.pc = "called"
  /\ LET key(r) == CacheKey(Default(r[1], Str("riddle")),
                            Default(r[2], Str("medium")),
                            Default(r[3], Null))
     IN observed' = [pc |-> "keyed", a |-> observed.a, b |-> observed.b,
                     keyA |-> key(observed.a), keyB |-> key(observed.b)]
  /\ UNCHANGED <<questionCache, now, API_KEY, inflight>>

NextKeys == cacheKey_computed

SpecKeys == InitKeys /\ [][NextKeys]_vars

\* the request with an absent topic replaced by "default"
C31_AbsentAsDefault(r) ==
  <<r[1].s, r[2].s, IF r[3] \in {Undef, Null} THEN "default" ELSE r[3].s>>

\* the request with an absent or empty topic replaced by "default"
C31_AbsentOrEmptyAsDefault(r) ==
  <<r[1].s, r[2].s, IF r[3] \in {Undef, Null, Str("")} THEN "default" ELSE r[3].s>>

\* C31 as stated: for valid content types and difficulties, two requests
\* whose (type, difficulty, topic with absent read as "default") differ
\* never have the same cache key.
C31_InjectiveOnStatedTriple ==
  observed.pc = "keyed" =>
    (C31_AbsentAsDefault(observed.a) # C31_AbsentAsDefault(observed.b) =>
       observed.keyA # observed.keyB)

\* C31 as amended: for valid content types and difficulties, two requests
\* have the same cache key exactly when they agree in (type, difficulty,
\* topic with an absent or empty topic read as "default"), also when the
\* topic contains "-"; so a request is served the cached artifact of another
\* only if they agree in that triple.
C31_InjectiveUpToEmptyTopic ==
  observed.pc = "keyed" =>
    (observed.keyA = observed.keyB <=>
       C31_AbsentOrEmptyAsDefault(observed.a) = C31_AbsentOrEmptyAsDefault(observed.b))

\* the call with the empty topic and the call with topic "default" got the
\* same key
C31_Witness ==
  /\ observed.pc = "keyed"
  /\ observed.a = <<Str("riddle"), Str("easy"), Str("")>>
  /\ observed.b = <<Str("riddle"), Str("easy"), Str("default")>>
  /\ observed.keyA = "riddle-easy-default"
  /\ observed.keyB = "riddle-easy-default"

(***************************************************************************)
(* Backends whose replies have a member named cached: the body of the      *)
(* local reply is spread into the result (line 213), the JSON of the       *)
(* remote text is spread into it (line 303).                               *)
(***************************************************************************)
FlagCalls == {<<Str("trivia"), Str("easy"), Undef>>}

FlagHealthReplies ==
  {Response(200, Obj([status |-> Str("healthy")])), Timeout}

FlagLocalReplies ==
  {Response(200, Obj([question |-> Str("Q1"), answer |-> Str("A1"),
                      cached |-> Bool(TRUE)])),
   Response(200, Obj([question |-> Str("Q2"), answer |-> Str("A2")])),
   NetworkError}

FlagRemoteReplies ==
  {Response(200, Chat(Text(<<LB, M("question", Str("Q3")),
                             M("cached", Bool(TRUE)), RB>>))),
   Response(503, Obj(<<>>))}

NextFlag ==
  \/ \E args \in FlagCalls : generateQuestion_call(args)
  \/ \E q \in InFlight, reply \in FlagHealthReplies : generateQuestion_probed(q, reply)
  \/ \E q \in InFlight, reply \in FlagLocalReplies : generateQuestion_local(q, reply)
  \/ \E q \in InFlight, reply \in FlagRemoteReplies : generateQuestion_remote(q, reply)
  \/ \E d \in TickSteps : Tick(d)

SpecFlag == Init /\ [][NextFlag]_vars

\* the artifact on a hit: cached = true and the source of the stored artifact
C32_HitFlagged ==
  ReturnedHit =>
    /\ Get(observed.outcome.value, "cached") = Bool(TRUE)
    /\ Get(observed.outcome.value, "source") =
         Get(questionCache[KeyOf(observed)].data, "source")

\* C32 as stated: the artifact returned on a cache hit carries cached = true
\* and the source tag of the stored artifact, and an artifact returned on a
\* miss, from the local backend, the remote backend or the fallbacks, never
\* carries cached = true.
C32_CachedOnlyOnHit ==
  /\ C32_HitFlagged
  /\ Returned /\ ~ReturnedHit =>
       Get(observed.outcome.value, "cached") # Bool(TRUE)

(***************************************************************************)
(* A remote backend that answers with text that holds no JSON object, with *)
(* a JSON object, or not at all; the local backend is down.                *)
(***************************************************************************)
DegradedCalls == {<<Str("trivia"), Str("easy"), Undef>>}

DegradedHealthReplies == {Timeout}

DegradedRemoteReplies ==
  {Response(200, Chat(Text(<<W>>))),
   Response(200, Chat(Text(<<LB, M("question", Str("Q3")), M("answer", Str("A3")), RB>>))),
   NetworkError}

NextDegraded ==
  \/ \E args \in DegradedCalls : generateQuestion_call(args)
  \/ \E q \in InFlight, reply \in DegradedHealthReplies : generateQuestion_probed(q, reply)
  \/ \E q \in InFlight, reply \in DegradedRemoteReplies : generateQuestion_remote(q, reply)
  \/ clearQuestionCache
  \/ \E d \in TickSteps : Tick(d)

SpecDegraded == Init /\ [][NextDegraded]_vars

\* the best-effort artifact of generateWithAPI (lines 314-322)
C33_BestEffort(v) ==
  /\ Get(v, "answer") = Str("Generated content")
  /\ Get(v, "hint") = Str("AI-generated content")
  /\ Get(v, "source") = Str("api")

\* the keys whose entry holds a best-effort artifact and has not expired
C33_Degraded(cache, t) ==
  {k \in DOMAIN cache : C33_BestEffort(cache[k].data) /\ CacheHit(cache, k, t)}

\* the call that returns a best-effort artifact writes it to the cache with
\* the time of the write, and a call that finds it there before it expires
\* returns it without contacting a backend
C33_WrittenAndServed ==
  /\ [][ReturnedGenerated' /\ C33_BestEffort(observed'.outcome.value) =>
          /\ Get(observed'.outcome.value, "category") = observed'.type
          /\ KeyOf(observed') \in DOMAIN questionCache'
          /\ questionCache'[KeyOf(observed')] =
               [data |-> observed'.outcome.value, timestamp |-> now]]_vars
  /\ [][\A args \in DegradedCalls :
          LET k == CacheKey(Default(args[1], Str("riddle")),
                            Default(args[2], Str("medium")),
                            Default(args[3], Null))
          IN generateQuestion_call(args) /\ k \in C33_Degraded(questionCache, now) =>
               /\ ReturnedHit'
               /\ observed'.outcome.value = HitResult(questionCache[k])
               /\ observed'.probes + observed'.localCalls + observed'.apiPosts = 0
               /\ inflight' = inflight
               /\ questionCache' = questionCache]_vars

\* C33 as stated: a best-effort remote artifact is cached like any other
\* generation, and every request for its fingerprint during the next
\* 300000 ms is answered with it without contacting a backend: the entry
\* is there, unchanged, for as long as it has not expired.
C33_DegradedServedForTTL ==
  /\ C33_WrittenAndServed
  /\ [][\A k \in C33_Degraded(questionCache, now) :
          now' - questionCache[k].timestamp < CACHE_DURATION =>
            k \in DOMAIN questionCache' /\ questionCache'[k] = questionCache[k]]_vars

\* C33 as amended: a best-effort remote artifact is cached like any other
\* generation, and a request for its fingerprint is answered with it,
\* without contacting a backend, while it is in the cache and less than
\* 300000 ms old; before that it leaves the cache only when another call of
\* the same key, in flight at the time of the write, returns its own
\* generation and overwrites it, or when clearQuestionCache is called.
C33_DegradedServedWhileStored ==
  /\ C33_WrittenAndServed
  /\ [][\A k \in C33_Degraded(questionCache, now) :
          \/ k \in DOMAIN questionCache' /\ questionCache'[k] = questionCache[k]
          \/ ReturnedGenerated' /\ KeyOf(observed') = k /\ observed'.apiPosts = 1
          \/ observed'.pc = "cleared"]_vars

\* a call was answered from the cache with the best-effort artifact written
\* 299999 ms before
C33_Witness ==
  /\ ReturnedHit
  /\ C33_BestEffort(observed.outcome.value)
  /\ Get(observed.outcome.value, "cached") = Bool(TRUE)
  /\ observed.age = 299999

\* C34: clearQuestionCache does not cancel the generateQuestion calls in
\* flight. It empties the cache and leaves every call awaiting its probe or
\* its generation as it is; a call awaiting a generation can still receive
\* a successful reply, and when it does right after the clear it writes its
\* entry, so the cache holds that entry although no call started after the
\* clear.
C34_ClearDoesNotCancel ==
  /\ [][observed'.pc = "cleared" =>
          questionCache' = <<>> /\ inflight' = inflight]_vars
  /\ [](observed.pc = "cleared" =>
          \A q \in InFlight :
            /\ q.pc = "probe" =>
                 ENABLED (\E reply \in DegradedHealthReplies :
                            generateQuestion_probed(q, reply))
            /\ q.pc = "remote" =>
                 ENABLED (/\ \E reply \in DegradedRemoteReplies :
                               generateQuestion_remote(q, reply)
                          /\ ReturnedGenerated'
                          /\ DOMAIN questionCache' = {KeyOf(q)}))
  /\ [][observed.pc = "cleared" /\ ReturnedGenerated' =>
          /\ \E q \in InFlight :
               q.pc \in {"local", "remote"} /\ KeyOf(q) = KeyOf(observed')
          /\ questionCache' =
               (KeyOf(observed') :> [data |-> observed'.outcome.value,
                                     timestamp |-> now])]_vars

\* the cache has just been cleared while one call awaits its probe and
\* another the reply of the remote backend
C34_Witness ==
  /\ observed.pc = "cleared"
  /\ questionCache = <<>>
  /\ \E q \in InFlight : q.pc = "probe"
  /\ \E q \in InFlight : q.pc = "remote"
\* C35: the cache has no eviction and no size bound. Over the steps of
\* generateQuestion, getCacheStats and getAIMetrics, and as time passes, no
\* key leaves the cache, so the number of entries never decreases; it grows
\* by one with each generation returned under a key not yet present and
\* stays the same in every other such step; only clearQuestionCache
\* reduces it.
C35_EntriesNeverDecrease ==
  [][IF observed'.pc = "cleared"
     THEN questionCache' = <<>>
     ELSE /\ DOMAIN questionCache \subseteq DOMAIN questionCache'
          /\ Cardinality(DOMAIN questionCache') =
               Cardinality(DOMAIN questionCache) +
                 (IF ReturnedGenerated' /\ KeyOf(observed') \notin DOMAIN questionCache
                  THEN 1 ELSE 0)]_vars

\* a generation has just added a second entry while the first one, expired,
\* is still there
C35_Witness ==
  /\ ReturnedGenerated
  /\ Cardinality(DOMAIN questionCache) = 2
  /\ questionCache[KeyOf(observed)].timestamp = now
  /\ \E k \in DOMAIN questionCache : now - questionCache[k].timestamp >= CACHE_DURATION

(***************************************************************************)
(* generateMultipleQuestions: a loop of count rounds, each awaiting one    *)
(* generateQuestion(type, difficulty) and then a timer of 1000 ms. The     *)
(* batch is in flight as a record next to the call it awaits; calls holds, *)
(* for each call it has awaited, the call as it returned, the time and the *)
(* age of the entry at its cache check, and the time of its return.        *)
(***************************************************************************)
MaxCount == 3

BATCH_DELAY == 1000

BatchIdle ==
  [pc |-> "batch", type |-> Undef, difficulty |-> Undef, count |-> 0, i |-> 0,
   questions |-> <<>>, calls |-> <<>>, called |-> 0, age |-> -1, due |-> 0]

\* the batches in flight
Batches == {b \in InFlight : b.pc \in {"batch-await", "batch-delay"}}

\* generateQuestion(type, difficulty) with the index as the topic
BatchArgs_indexAsTopic(b) == <<b.type, b.difficulty, Str(ToString(b.i))>>

\* the arguments of generateQuestion(type, difficulty) in the loop
BatchArgs(b) == <<b.type, b.difficulty, Undef>>

\* if (question) questions.push(question), then the timer is set
Pushed(b, call, called, age, at) ==
  [b EXCEPT !.pc = "batch-delay",
            !.questions = IF Truthy(call.outcome.value)
                          THEN Append(@, call.outcome.value) ELSE @,
            !.calls = Append(@, [call |-> call, called |-> called,
                                 age |-> age, at |-> at]),
            !.due = at + BATCH_DELAY]

\* one round of the loop for the batch b, in flight as old, at time t: the
\* call of generateQuestion runs to its first await; on a cache hit it has
\* returned, the batch pushes the artifact and sets its timer; on a miss the
\* probe is sent and the batch awaits the call
BatchRound(old, b, t) ==
  LET args == BatchArgs(b)
      type == Default(args[1], Str("riddle"))
      difficulty == Default(args[2], Str("medium"))
      topic == Default(args[3], Null)
      key == CacheKey(type, difficulty, topic)
      age == Age(questionCache, key, t)
      q == [Idle EXCEPT !.type = type, !.difficulty = difficulty,
                        !.topic = topic, !.age = age]
  IN IF CacheHit(questionCache, key, t)
     THEN LET call == [q EXCEPT !.pc = "done",
                                !.outcome = [kind |-> "resolved",
                                             value |-> HitResult(questionCache[key])]]
          IN /\ inflight' = (inflight (-) SetToBag({old})) (+)
                            SetToBag({Pushed(b, call, t, age, t)})
             /\ observed' = call
     ELSE /\ inflight' = ((inflight (-) SetToBag({old})) (+)
                          SetToBag({[b EXCEPT !.pc = "batch-await",
                                              !.called = t, !.age = age]})) (+)
                         SetToBag({[q EXCEPT !.pc = "probe", !.probes = 1, !.age = -1]})
          /\ observed' = [q EXCEPT !.pc = "probe", !.probes = 1]

\* generateMultipleQuestions('trivia', count, 'easy') has just been called,
\* with a real credential and an empty cache: its first round has missed
\* and sent its probe
InitBatch ==
  /\ questionCache = <<>>
  /\ now = 0
  /\ API_KEY = Str("sk-key")
  /\ observed = Idle
  /\ \E count \in 1 .. MaxCount :
       LET b == [BatchIdle EXCEPT !.type = Str("trivia"), !.count = count,
                                  !.difficulty = Str("easy")]
           args == BatchArgs(b)
       IN inflight =
            SetToBag({[b EXCEPT !.pc = "batch-await"]}) (+)
            SetToBag({[Idle EXCEPT !.type = args[1], !.difficulty = args[2],
                                   !.topic = Default(args[3], Null),
                                   !.pc = "probe", !.probes = 1]})

\* the call the batch awaits has returned and the batch is still to resume
BatchResumable ==
  observed.pc = "done" /\ \E b \in Batches : b.pc = "batch-await"

\* the awaited call has returned: the batch resumes before any other event
\* is handled, pushes the artifact and sets its timer
generateMultipleQuestions_resumed ==
  /\ BatchResumable
  /\ \E b \in Batches :
       /\ b.pc = "batch-await"
       /\ LET b2 == Pushed(b, observed, b.called, b.age, now)
          IN /\ inflight' = (inflight (-) SetToBag({b})) (+) SetToBag({b2})
             /\ observed' = b2
  /\ UNCHANGED <<questionCache, now, API_KEY>>

\* the timer of the batch fires, at its due time or later: i++ and the next
\* round, or the return of the questions
generateMultipleQuestions_timer(b) ==
  /\ b \in Batches
  /\ b.pc = "batch-delay"
  /\ Max(now, b.due) <= MaxNow
  /\ now' = Max(now, b.due)
  /\ LET b1 == [b EXCEPT !.i = @ + 1]
     IN IF b1.i < b1.count
        THEN BatchRound(b, b1, Max(now, b.due))
        ELSE /\ inflight' = inflight (-) SetToBag({b})
             /\ observed' = [b1 EXCEPT !.pc = "batch-done"]
  /\ UNCHANGED <<questionCache, API_KEY>>

BatchHealthReplies == {Timeout}

BatchRemoteReplies ==
  {Response(200, Chat(Text(<<LB, M("question", Str("Q3")), M("answer", Str("A3")), RB>>))),
   Response(200, Chat(Text(<<LB, M("question", Str("Q4")), M("answer", Str("A4")), RB>>))),
   NetworkError}

\* time passes by nearly the lifetime of an entry
BatchTickSteps == {CACHE_DURATION - BATCH_DELAY}

NextBatch ==
  \/ generateMultipleQuestions_resumed
  \/ ~BatchResumable /\ \E b \in InFlight : generateMultipleQuestions_timer(b)
  \/ ~BatchResumable /\ \E q \in InFlight, reply \in BatchHealthReplies :
                          generateQuestion_probed(q, reply)
  \/ ~BatchResumable /\ \E q \in InFlight, reply \in BatchRemoteReplies :
                          generateQuestion_remote(q, reply)
  \/ ~BatchResumable /\ clearQuestionCache
  \/ ~BatchResumable /\ \E d \in BatchTickSteps : Tick(d)

SpecBatch == InitBatch /\ [][NextBatch]_vars

\* the batches the state shows: in flight, or just returned
C36_Batches ==
  {b \in InFlight \cup {observed} : b.pc \in {"batch-await", "batch-delay", "batch-done"}}

\* the logged call returned a generation of a live backend
C36_Live(c) == c.call.local = "returned" \/ c.call.api = "returned"

\* the logged call returned from its cache check
C36_Hit(c) ==
  c.call.probes = 0 /\ c.call.localCalls = 0 /\ c.call.apiPosts = 0

\* the artifact v as a hit returns it
C36_Flagged(v) == Obj(Spread(Fields(v), [cached |-> Bool(TRUE)]))

\* the calls of a batch come one after another and have the same key
C36_Sequential ==
  \A b \in C36_Batches :
    /\ \A k \in 1 .. Len(b.calls) :
         KeyOf(b.calls[k].call) = CacheKey(b.type, b.difficulty, Null)
    /\ \A k \in 1 .. Len(b.calls) - 1 : b.calls[k].at <= b.calls[k + 1].called
    /\ b.pc = "batch-delay" => BagCardinality(inflight) = 1
    /\ b.pc = "batch-await" => BagCardinality(inflight) = IF BatchResumable THEN 1 ELSE 2

\* C36 as stated: the calls of a batch run one after another with the same
\* fingerprint, and once a call of the batch has returned a live generation,
\* every later call of the batch made less than 300000 ms after it is a
\* cache hit that returns the same artifact content and contacts no backend.
C36_OneLiveArtifactPerWindow ==
  /\ C36_Sequential
  /\ \A b \in C36_Batches : \A j, k \in 1 .. Len(b.calls) :
       j < k /\ C36_Live(b.calls[j])
             /\ b.calls[k].called - b.calls[j].at < CACHE_DURATION =>
         /\ C36_Hit(b.calls[k])
         /\ b.calls[k].call.outcome.value = C36_Flagged(b.calls[j].call.outcome.value)

\* C36 as amended: the calls of a batch run one after another with the same
\* fingerprint. A call of the batch is a cache hit, contacting no backend,
\* exactly when its cache check finds an entry less than 300000 ms old, and
\* then it returns the content of the live generation of the batch that
\* wrote that entry. A call made less than 300000 ms after a live generation
\* of the batch is such a hit unless the entry is gone at its cache check,
\* which is what clearQuestionCache does; that call contacts the backends
\* again, so a batch can hold two live generations of one window.
C36_HitsWhileStored ==
  /\ C36_Sequential
  /\ \A b \in C36_Batches : \A k \in 1 .. Len(b.calls) :
       /\ C36_Hit(b.calls[k]) <=> b.calls[k].age \in 0 .. CACHE_DURATION - 1
       /\ C36_Hit(b.calls[k]) =>
            \E j \in 1 .. k - 1 :
              /\ C36_Live(b.calls[j])
              /\ b.calls[j].at = b.calls[k].called - b.calls[k].age
              /\ b.calls[k].call.outcome.value =
                   C36_Flagged(b.calls[j].call.outcome.value)
       /\ \A j \in 1 .. k - 1 :
            /\ C36_Live(b.calls[j])
            /\ b.calls[k].called - b.calls[j].at < CACHE_DURATION
            /\ ~C36_Hit(b.calls[k])
            => b.calls[k].age = -1

\* a batch of three: a live generation, a hit on it 1000 ms later, and,
\* the cache cleared in between, a second live generation in the same window
C36_Witness ==
  \E b \in C36_Batches :
    /\ Len(b.calls) = 3
    /\ C36_Live(b.calls[1])
    /\ C36_Hit(b.calls[2])
    /\ b.calls[2].age = BATCH_DELAY
    /\ C36_Live(b.calls[3])
    /\ b.calls[3].age = -1
    /\ b.calls[3].called - b.calls[1].at < CACHE_DURATION
    /\ Len(b.questions) = 3

(***************************************************************************)
(* The catch block for a type that is not a key of fallbacks.              *)
(***************************************************************************)
\* an unknown name, names that every object inherits, and a number
UnknownTypes ==
  {Str("puzzle"), Str("toString"), Str("constructor"), Str("__proto__"), Num(7)}

InitUnknown ==
  /\ now = 0
  /\ API_KEY \in ApiKeys
  /\ inflight = EmptyBag
  /\ \E type \in UnknownTypes, difficulty \in CatchDifficulties, err \in CatchErrors :
       /\ questionCache \in CatchCaches(CacheKey(type, difficulty, Null))
       /\ observed = [Idle EXCEPT !.type = type, !.difficulty = difficulty,
                                  !.topic = Null, !.pc = "catch",
                                  !.probes = 1, !.probe = "down",
                                  !.apiCalls = 1, !.api = "threw",
                                  !.outcome = [kind |-> "thrown", err |-> err]]

SpecUnknown == InitUnknown /\ [][NextCatch]_vars

\* C37 as stated: for a content type outside riddle, trivia, emoji and word,
\* a call whose live tiers all failed returns the riddle fallback, tagged
\* source = fallback, and never undefined.
C37_UnknownTypeGetsRiddle ==
  observed.pc = "done" /\ ToStr(observed.type) \notin ContentTypes =>
    /\ observed.outcome.kind = "resolved"
    /\ observed.outcome.value # Undef
    /\ observed.outcome.value = fallbacks(observed.difficulty).riddle
    /\ Get(observed.outcome.value, "source") = Str("fallback")

(***************************************************************************)
(* The Imposter lobby (routes/Imposter): several clients, one lobby node   *)
(* in the realtime database. Here observed holds the lobby node as the     *)
(* database has it, which is what every onValue listener is sent, and      *)
(* inflight holds the submitClue calls between their awaits.               *)
(***************************************************************************)
LobbyPlayers == {"Player1", "Player2", "Player3"}

\* the clue typed: nothing, or a word
LobbyClues == {"", "fruit"}

\* a lobby after createLobby, one joinLobby and startRound: two players
\* without clues, phase "clue"
InitLobby ==
  /\ questionCache = <<>>
  /\ now = 0
  /\ API_KEY = Undef
  /\ inflight = EmptyBag
  /\ observed = [pc |-> "lobby", phase |-> "clue",
                 players |-> [p \in {"Player1", "Player2"} |-> [clue |-> ""]]]

\* Object.values(snap.val().players).every((p) => p.clue !== "")
AllGiven(players) == \A p \in DOMAIN players : players[p].clue # ""

\* joinLobby(code) by a client whose player is not in the lobby: the set of
\* players/<playerName> reaches the database
joinLobby(p) ==
  /\ observed.pc = "lobby"
  /\ p \notin DOMAIN observed.players
  /\ observed' = [observed EXCEPT !.players = (p :> [clue |-> ""]) @@ @]
  /\ UNCHANGED <<questionCache, now, API_KEY, inflight>>

\* submitClue(clue) by player p, whose page shows the clue phase: the update
\* of players/<playerName> reaches the database
submitClue_call(p, clue) ==
  /\ observed.pc = "lobby"
  /\ observed.phase = "clue"
  /\ p \in DOMAIN observed.players
  /\ BagCardinality(inflight) < MaxInFlight
  /\ observed' = [observed EXCEPT !.players[p].clue = clue]
  /\ inflight' = inflight (+) SetToBag({[pc |-> "updated", player |-> p]})
  /\ UNCHANGED <<questionCache, now, API_KEY>>

\* const snap = await get(...): the database answers with the lobby as it is
submitClue_get(q) ==
  /\ q \in InFlight
  /\ q.pc = "updated"
  /\ inflight' = (inflight (-) SetToBag({q})) (+)
                 SetToBag({[pc |-> "got", player |-> q.player,
                            snap |-> observed.players]})
  /\ UNCHANGED <<questionCache, now, API_KEY, observed>>

\* allGiven is computed from the snapshot, and if (allGiven) the update of
\* phase to "vote" reaches the database
submitClue_check(q) ==
  /\ q \in InFlight
  /\ q.pc = "got"
  /\ inflight' = inflight (-) SetToBag({q})
  /\ observed' = IF AllGiven(q.snap)
                 THEN [observed EXCEPT !.phase = "vote"]
                 ELSE observed
  /\ UNCHANGED <<questionCache, now, API_KEY>>

NextLobby ==
  \/ \E p \in LobbyPlayers : joinLobby(p)
  \/ \E p \in LobbyPlayers, clue \in LobbyClues : submitClue_call(p, clue)
  \/ \E q \in InFlight : submitClue_get(q)
  \/ \E q \in InFlight : submitClue_check(q)

SpecLobby == InitLobby /\ [][NextLobby]_vars

\* C38 as stated: whenever a submitClue call sets the phase of the lobby to
\* "vote", every player in the lobby at that moment has a non-empty clue,
\* whatever joinLobby and submitClue calls of other clients came in between.
C38_VoteOnlyWhenAllClues ==
  [][\A q \in InFlight :
       submitClue_check(q) /\ AllGiven(q.snap) =>
         observed'.phase = "vote" /\ AllGiven(observed'.players)]_vars

====
